---- MODULE Spec2Model ----
(***************************************************************************)
(* Model of the simulation engine: WorldState.apply_event, the tools'      *)
(* validate_intent / generate_events, Simulator.process_command,           *)
(* Simulator.tick, Simulator.run_one_npc_turn, the event handlers, the     *)
(* conversation helpers and NPCPlanner.plan.                               *)
(***************************************************************************)
EXTENDS Integers, Sequences, FiniteSets, TLC

\* ------------------------------------------------------------------ bounds
MaxTick == 2
MaxWait == 2
MaxCommands == 2
\* most entries of one kind that one reflect event carries
MaxNew == 2
MaxDrain == 3

\* ------------------------------------------------------- the loaded world
None == "none"
Agents == {"n1", "n2", "p1"}
player_id == "p1"
Locs == {"L1", "L2"}
LocOrder == <<"L1", "L2">>
Items == {"i1", "i2"}
Slots == {"main_hand"}
NoConv == <<"none", 0>>

\* item catalog: i1 is a finesse weapon (1d6), i2 is food with the default dice
DamageDie(item) == IF item = "i1" THEN 6 ELSE 4
ArmourRating(item) == 0
IsFood(item) == item = "i2"
IsFinesse(item) == item = "i1"
UnarmedDie == 4

Strength(a) == IF a = "p1" THEN 12 ELSE IF a = "n1" THEN 10 ELSE 6
Dexterity(a) == IF a = "n2" THEN 14 ELSE 10
Constitution(a) == IF a = "p1" THEN 1 ELSE IF a = "n1" THEN 0 ELSE 10
\* proficiency_bonus(attacker.skills.get(weapon.skill_tag, ""))
ProfBonus(a) == IF a = "p1" THEN 2 ELSE 0

HUNGRY_THRESHOLD == 20
STARVING_THRESHOLD == 40
ConvTimeout == 300
\* the caps of apply_event on NPC.memories and NPC.core_memories
MaxMemories == 1000
MaxCoreMemories == 50
\* memory.perception_buffer_size of config/llm.json
perception_buffer_size == 1
\* the agent whose inherent tags hold elevated_vantage_point
Elevated(a) == a = "n2"

\* ---------------------------------------------------------------- tools
AllTools == {"move", "talk", "talk_loud", "scream", "interject",
             "leave_conversation", "look", "grab", "drop", "attack",
             "inventory", "stats", "equip", "unequip", "analyze", "eat",
             "give", "open", "close", "toggle_starvation", "wait", "rest",
             "reason"}

TimeCostOf(t) ==
  CASE t = "move" -> 5
    [] t = "attack" -> 3
    [] t \in {"equip", "unequip"} -> 2
    [] t = "toggle_starvation" -> 0
    [] t = "reflect" -> 5
    [] OTHER -> 1

VARIABLES
  tools,                \* Simulator.tools: names of the registered tools
  game_tick,            \* Simulator.game_tick
  event_queue,          \* Simulator.event_queue
  starvation_enabled,   \* Simulator.starvation_enabled
  occupants,            \* LocationState.occupants, per location
  loc_items,            \* LocationState.items, per location
  connections,          \* LocationState.connections_state[nb].status
  directions,           \* LocationState.connections_state[nb].direction
  hex_connections,      \* LocationStatic.hex_connections, as neighbour -> direction key
  short_term_memory,    \* NPC.short_term_memory
  inventory,            \* NPC.inventory
  slots,                \* NPC.slots
  item_instances,       \* keys of WorldState.item_instances
  owner_id,             \* ItemInstance.owner_id, per item
  current_location,     \* ItemInstance.current_location, per item
  npcs,                 \* keys of WorldState.npcs
  locations_state,      \* keys of WorldState.locations_state
  hp,                   \* NPC.hp
  dead,                 \* "dead" in NPC.tags["dynamic"]
  next_available_tick,  \* NPC.next_available_tick
  last_meal_tick,       \* NPC.last_meal_tick
  hunger_stage,         \* NPC.hunger_stage
  memories,             \* len(NPC.memories)
  core_memories,        \* len(NPC.core_memories)
  conversations,        \* Simulator.conversations
  actor_conversation,   \* Simulator.actor_conversation
  npc_turn_order,       \* Simulator.npc_turn_order
  current_npc_index,    \* Simulator.current_npc_index (0-based)
  last_call,            \* the last call made on the simulator and how it returned
  planned,              \* per NPC: "talk" when plan() returned the talk tool for it in the last run_one_npc_turn
  plan_failed,          \* NPCs whose LLM reply in the last run_one_npc_turn was unparseable or the empty object
  round_plans,          \* per NPC: whether plan() was called for it since the last run_one_npc_turn that returned False (or the last tick): "none", "once" or "again"
  dropped,              \* ready events of the last drained batch that were never handled
  accepted,             \* tools of the commands accepted per actor at the current game_tick
  commands_run,         \* number of commands accepted so far
  ready_events,         \* the local ready_events of the drain that is under way
  draining,             \* which loop is under way: "no", "tick" or "npc"
  request_pc,           \* per /api/action request: where perform_action stands
  any_npc_acted,        \* per /api/action request: the local any_npc_acted
  zeroed,               \* agents whose hp a damage_applied event brought to <= 0 and that are not dead yet
  overdue               \* agents that were zeroed before the last tick() began and still not dead when it returned

vars == <<tools, game_tick, event_queue, starvation_enabled, occupants,
          loc_items, connections, directions, hex_connections,
          short_term_memory, inventory, slots, item_instances, owner_id,
          current_location, npcs, locations_state, hp, dead,
          next_available_tick, last_meal_tick, hunger_stage,
          memories, core_memories,
          conversations, actor_conversation, npc_turn_order,
          current_npc_index, last_call, planned, plan_failed, round_plans, dropped,
          accepted, commands_run, zeroed, overdue, ready_events, draining, request_pc,
          any_npc_acted>>

\* the locals of the running perform_action calls
reqVars == <<request_pc, any_npc_acted>>

\* the position inside a drain that is followed event by event
loopVars == <<ready_events, draining>>

\* the program state proper (everything but the observation variables)
progVars == <<tools, game_tick, event_queue, starvation_enabled, occupants,
              loc_items, connections, directions, hex_connections,
              short_term_memory, inventory, slots, item_instances, owner_id,
              current_location, npcs, locations_state, hp,
              dead, next_available_tick, last_meal_tick, hunger_stage,
              memories, core_memories,
              conversations, actor_conversation, npc_turn_order,
              current_npc_index>>

\* ------------------------------------------------------ sequence helpers
InSeq(x, s) == \E i \in 1..Len(s) : s[i] = x

SeqToSet(s) == {s[i] : i \in 1..Len(s)}

\* list.remove(x): delete the first occurrence
RemoveFirst(s, x) ==
  IF ~InSeq(x, s) THEN s
  ELSE LET k == CHOOSE i \in 1..Len(s) : s[i] = x /\ \A j \in 1..(i-1) : s[j] # x
       IN SubSeq(s, 1, k-1) \o SubSeq(s, k+1, Len(s))

\* [p for p in s if p != x]
Without(s, x) == SelectSeq(s, LAMBDA y : y # x)

Count(x, s) == Cardinality({i \in 1..Len(s) : s[i] = x})

Max2(a, b) == IF a >= b THEN a ELSE b
Min2(a, b) == IF a <= b THEN a ELSE b

\* The state the handlers work on, as one record
State ==
  [tick |-> game_tick, queue |-> event_queue, starv |-> starvation_enabled,
   occ |-> occupants, litems |-> loc_items, conn |-> connections,
   dir |-> directions, hex |-> hex_connections, stm |-> short_term_memory,
   inv |-> inventory, slots |-> slots, live |-> item_instances, hp |-> hp,
   owner |-> owner_id, iloc |-> current_location, npcs |-> npcs,
   locs |-> locations_state,
   dead |-> dead, nat |-> next_available_tick, meal |-> last_meal_tick,
   hunger |-> hunger_stage, mem |-> memories, core |-> core_memories,
   convs |-> conversations,
   aconv |-> actor_conversation, zeroed |-> zeroed]

Commit(S) ==
  /\ game_tick' = S.tick
  /\ event_queue' = S.queue
  /\ starvation_enabled' = S.starv
  /\ occupants' = S.occ
  /\ loc_items' = S.litems
  /\ connections' = S.conn
  /\ directions' = S.dir
  /\ hex_connections' = S.hex
  /\ short_term_memory' = S.stm
  /\ inventory' = S.inv
  /\ slots' = S.slots
  /\ item_instances' = S.live
  /\ owner_id' = S.owner
  /\ current_location' = S.iloc
  /\ npcs' = S.npcs
  /\ locations_state' = S.locs
  /\ hp' = S.hp
  /\ dead' = S.dead
  /\ next_available_tick' = S.nat
  /\ last_meal_tick' = S.meal
  /\ hunger_stage' = S.hunger
  /\ memories' = S.mem
  /\ core_memories' = S.core
  /\ conversations' = S.convs
  /\ actor_conversation' = S.aconv
  /\ zeroed' = [a \in Agents |-> S.zeroed[a] /\ ~S.dead[a]]

\* Event envelope (events.Event), flattened to the fields the handlers read
Ev(type, tick, actor, tgt, aux, amt, conv) ==
  [type |-> type, tick |-> tick, actor |-> actor, tgt |-> tgt, aux |-> aux,
   amt |-> amt, conv |-> conv]

\* ------------------------------------------------------------ WorldState
FindNpcLocation(S, a) ==
  IF \E i \in 1..Len(LocOrder) : InSeq(a, S.occ[LocOrder[i]])
  THEN LocOrder[CHOOSE i \in 1..Len(LocOrder) :
                  /\ InSeq(a, S.occ[LocOrder[i]])
                  /\ \A j \in 1..(i-1) : ~InSeq(a, S.occ[LocOrder[j]])]
  ELSE None

\* WorldState.update_hunger: new hunger stages and the starvation events, in
\* the iteration order of world.npcs
AgentOrder == <<"n1", "n2", "p1">>

\* (variant: the thresholds are exclusive)
HungerStageAtStrict(S, a, current_tick) ==
  IF current_tick - S.meal[a] > STARVING_THRESHOLD THEN "starving"
  ELSE IF current_tick - S.meal[a] > HUNGRY_THRESHOLD THEN "hungry"
  ELSE "sated"

HungerStageAt(S, a, current_tick) ==
  IF current_tick - S.meal[a] >= STARVING_THRESHOLD THEN "starving"
  ELSE IF current_tick - S.meal[a] >= HUNGRY_THRESHOLD THEN "hungry"
  ELSE "sated"

UpdateHungerEvents(S, current_tick) ==
  LET F[i \in 0..Len(AgentOrder)] ==
        IF i = 0 THEN <<>>
        ELSE LET a == AgentOrder[i] IN
             IF ~S.dead[a] /\ current_tick - S.meal[a] >= STARVING_THRESHOLD
             THEN Append(F[i-1], Ev("damage_applied", current_tick, a, a, "starvation", 1, NoConv))
             ELSE F[i-1]
  IN F[Len(AgentOrder)]

UpdateHunger(S, current_tick) ==
  [S EXCEPT !.hunger = [a \in Agents |->
                          IF S.dead[a] THEN S.hunger[a]
                          ELSE HungerStageAt(S, a, current_tick)],
            !.queue = S.queue \o UpdateHungerEvents(S, current_tick)]

\* inst = self.item_instances.get(item_id); if inst: inst.<field> = v, for the
\* items of the list ids
SetInst(S, field, ids, v) ==
  [i \in Items |-> IF InSeq(i, ids) /\ i \in S.live THEN v ELSE field[i]]

\* WorldState.apply_event, one operator per event_type
\* (variant: the actor is not removed from the location it leaves)
ApplyMoveKeepsOld(S, e) ==
  IF e.tgt = None THEN S
  ELSE [S EXCEPT !.occ[e.tgt] = Append(@, e.actor)]

\* a target that is no known location gets a fresh LocationState
\* (locations_state.setdefault); of that only the departure shows here
ApplyMove(S, e) ==
  LET cur == FindNpcLocation(S, e.actor)
      occ1 == IF cur # None THEN [S.occ EXCEPT ![cur] = RemoveFirst(@, e.actor)]
              ELSE S.occ
  IN IF e.tgt = None THEN S
     ELSE IF e.tgt \in Locs
          THEN [S EXCEPT !.occ = [occ1 EXCEPT ![e.tgt] = Append(@, e.actor)]]
          ELSE [S EXCEPT !.occ = occ1]

\* (variant: the item grabbed is not taken off the location's items)
ApplyGrabKeepsOnFloor(S, e) ==
  LET loc == FindNpcLocation(S, e.actor) IN
  IF loc # None /\ InSeq(e.tgt, S.litems[loc])
  THEN [S EXCEPT !.inv[e.actor] = Append(@, e.tgt)]
  ELSE S

ApplyGrab(S, e) ==
  LET loc == FindNpcLocation(S, e.actor) IN
  IF loc # None /\ InSeq(e.tgt, S.litems[loc])
  THEN [S EXCEPT !.litems[loc] = RemoveFirst(@, e.tgt),
                 !.inv[e.actor] = Append(@, e.tgt),
                 !.owner = SetInst(S, @, <<e.tgt>>, e.actor),
                 !.iloc = SetInst(S, @, <<e.tgt>>, None)]
  ELSE S

ApplyDrop(S, e) ==
  LET loc == FindNpcLocation(S, e.actor) IN
  IF loc # None /\ InSeq(e.tgt, S.inv[e.actor])
  THEN [S EXCEPT !.inv[e.actor] = RemoveFirst(@, e.tgt),
                 !.litems[loc] = Append(@, e.tgt),
                 !.owner = SetInst(S, @, <<e.tgt>>, None),
                 !.iloc = SetInst(S, @, <<e.tgt>>, loc)]
  ELSE S

ApplyEat(S, e) ==
  IF InSeq(e.tgt, S.inv[e.actor])
  THEN [S EXCEPT !.inv[e.actor] = RemoveFirst(@, e.tgt),
                 !.live = @ \ {e.tgt},
                 !.meal[e.actor] = e.tick,
                 !.hunger[e.actor] = "sated"]
  ELSE S

ApplyDamageApplied(S, e) ==
  [S EXCEPT !.hp[e.tgt] = Max2(@ - e.amt, 0)]

\* (variant: the healed amount is added without a cap)
ApplyRestUncapped(S, e) ==
  [S EXCEPT !.hp[e.actor] = @ + e.amt]

ApplyRest(S, e) ==
  [S EXCEPT !.hp[e.actor] = Min2(@ + e.amt, Max2(1, Constitution(e.actor) * 2))]

\* (variant: the item the slot held is not put back into the inventory)
ApplyEquipLosesReplaced(S, e) ==
  IF e.aux \in Slots /\ InSeq(e.tgt, S.inv[e.actor])
  THEN [S EXCEPT !.inv[e.actor] = RemoveFirst(@, e.tgt),
                 !.slots[e.actor][e.aux] = e.tgt]
  ELSE S

ApplyEquip(S, e) ==
  IF e.aux \in Slots /\ InSeq(e.tgt, S.inv[e.actor])
  THEN LET current == S.slots[e.actor][e.aux]
           inv1 == IF current # None THEN Append(S.inv[e.actor], current)
                   ELSE S.inv[e.actor]
       IN [S EXCEPT !.inv[e.actor] = RemoveFirst(inv1, e.tgt),
                    !.slots[e.actor][e.aux] = e.tgt]
  ELSE S

ApplyUnequip(S, e) ==
  IF e.aux \in Slots /\ S.slots[e.actor][e.aux] # None
  THEN [S EXCEPT !.inv[e.actor] = Append(@, S.slots[e.actor][e.aux]),
                 !.slots[e.actor][e.aux] = None]
  ELSE S

ApplyGive(S, e) ==
  IF e.tgt = None \/ e.aux = None THEN S
  ELSE IF e.aux \in Agents /\ InSeq(e.tgt, S.inv[e.actor])
  THEN LET inv1 == [S.inv EXCEPT ![e.actor] = RemoveFirst(@, e.tgt)]
       IN [S EXCEPT !.inv = [inv1 EXCEPT ![e.aux] = Append(@, e.tgt)],
                    !.owner = SetInst(S, @, <<e.tgt>>, e.aux)]
  ELSE S

\* HEX_DIR_INVERSE.get(d): the table is keyed by compass words only
HEX_DIR_INVERSE(d) ==
  CASE d = "north" -> "south"
    [] d = "south" -> "north"
    [] d = "north_east" -> "south_west"
    [] d = "north-east" -> "south-west"
    [] d = "northeast" -> "southwest"
    [] d = "south_west" -> "north_east"
    [] d = "south-west" -> "north-east"
    [] d = "southwest" -> "northeast"
    [] d = "south_east" -> "north_west"
    [] d = "south-east" -> "north-west"
    [] d = "southeast" -> "northwest"
    [] d = "north_west" -> "south_east"
    [] d = "north-west" -> "south-east"
    [] d = "northwest" -> "southeast"
    [] d = "east" -> "west"
    [] d = "west" -> "east"
    [] OTHER -> None

\* the inverse of a canonical direction code (api_edge_set_direction)
inverse(d) ==
  CASE d = "E" -> "W"
    [] d = "W" -> "E"
    [] d = "NE" -> "SW"
    [] d = "SW" -> "NE"
    [] d = "NW" -> "SE"
    [] d = "SE" -> "NW"
    [] OTHER -> None

\* both entries of an edge get the status; a missing entry is created
SetBothStatus(S, a, b, st) ==
  [S EXCEPT !.conn = [x \in Locs |-> [y \in Locs |->
                        IF <<x, y>> \in {<<a, b>>, <<b, a>>} THEN st
                        ELSE S.conn[x][y]]]]

\* the direction of (a,b) is taken from the static layout of a when the
\* entry has none, and the entry (b,a) gets its inverse when it has none and
\* HEX_DIR_INVERSE knows the direction
InferDirections(S, a, b) ==
  LET fdir == IF S.dir[a][b] = None THEN S.hex[a][b] ELSE S.dir[a][b]
      inv == IF fdir = None THEN None ELSE HEX_DIR_INVERSE(fdir)
      rdir == IF S.dir[b][a] = None THEN inv ELSE S.dir[b][a]
  IN [S EXCEPT !.dir = [x \in Locs |-> [y \in Locs |->
                          IF <<x, y>> = <<a, b>> THEN fdir
                          ELSE IF <<x, y>> = <<b, a>> THEN rdir
                          ELSE S.dir[x][y]]]]

ApplyOpenClose(S, e) ==
  LET actor_loc == FindNpcLocation(S, e.actor) IN
  IF actor_loc = None THEN S
  ELSE IF e.type = "open_connection"
       THEN InferDirections(SetBothStatus(S, actor_loc, e.tgt, "open"),
                            actor_loc, e.tgt)
       ELSE SetBothStatus(S, actor_loc, e.tgt, "closed")

\* Simulator._gm_connect_locations
GmConnectLocations(S, a, b, status) ==
  IF a = b THEN S
  ELSE InferDirections(
         SetBothStatus(S, a, b, IF status # "closed" THEN "open" ELSE "closed"),
         a, b)

\* Simulator._gm_disconnect_locations: both entries are popped
GmDisconnectLocations(S, a, b) ==
  [S EXCEPT !.conn = [x \in Locs |-> [y \in Locs |->
                        IF <<x, y>> \in {<<a, b>>, <<b, a>>} THEN "absent"
                        ELSE S.conn[x][y]]],
            !.dir = [x \in Locs |-> [y \in Locs |->
                        IF <<x, y>> \in {<<a, b>>, <<b, a>>} THEN None
                        ELSE S.dir[x][y]]]]

\* Simulator._gm_set_edge_status
GmSetEdgeStatus(S, a, b, status) ==
  SetBothStatus(S, a, b, IF status = "closed" THEN "closed" ELSE "open")

\* the items a dying agent carries: inventory first, then the filled slots
CarriedItems(S, a) ==
  S.inv[a] \o (IF S.slots[a]["main_hand"] # None
               THEN <<S.slots[a]["main_hand"]>> ELSE <<>>)

\* (variant: the inventory of the dying agent is not cleared)
ApplyNpcDiedKeepsInventory(S, e) ==
  LET a == e.actor
      loc == FindNpcLocation(S, a)
      S1 == IF loc # None
            THEN [S EXCEPT !.occ[loc] = RemoveFirst(@, a),
                           !.litems[loc] = @ \o CarriedItems(S, a),
                           !.slots[a] = [sl \in Slots |-> None]]
            ELSE S
  IN [S1 EXCEPT !.dead[a] = TRUE]

\* (variant: the dying agent is not tagged dead)
ApplyNpcDiedUntagged(S, e) ==
  LET a == e.actor
      loc == FindNpcLocation(S, a)
  IN IF loc # None
     THEN [S EXCEPT !.occ[loc] = RemoveFirst(@, a),
                    !.litems[loc] = @ \o CarriedItems(S, a),
                    !.slots[a] = [sl \in Slots |-> None],
                    !.inv[a] = <<>>]
     ELSE S

ApplyNpcDied(S, e) ==
  LET a == e.actor
      loc == FindNpcLocation(S, a)
      S1 == IF loc # None
            THEN [S EXCEPT !.occ[loc] = RemoveFirst(@, a),
                           !.litems[loc] = @ \o CarriedItems(S, a),
                           !.slots[a] = [sl \in Slots |-> None],
                           !.inv[a] = <<>>,
                           !.owner = SetInst(S, @, CarriedItems(S, a), None),
                           !.iloc = SetInst(S, @, CarriedItems(S, a), loc)]
            ELSE S
  IN [S1 EXCEPT !.dead[a] = TRUE]

\* (variant: the payload test is isinstance(d.get("payload"), dict) and the
\* Memory is built)
mk_mem_builds(d) == "Memory"

\* Memory(..., payload=dict(d.get("payload", {})) if
\* isinstance(d.get("payload", dict)) else {}, ...): isinstance is called
\* with one argument and raises TypeError, whatever d holds
mk_mem(d) == "TypeError"

\* reason: the add_memory and add_goal branches build their Memory or Goal
\* with the one-argument isinstance and raise before anything is appended;
\* a Memory that is built is appended, and beyond MaxMemories entries the
\* oldest ones are only marked archived; update_relationship changes only
\* NPC.relationships
ApplyReason(S, e) ==
  IF e.aux = "add_memory" /\ mk_mem(e) # "TypeError"
  THEN [S EXCEPT !.mem[e.actor] = @ + 1]
  ELSE S

ApplyEventRaises(S, e) ==
  /\ e.type = "reason"
  /\ \/ e.aux = "add_memory" /\ mk_mem(e) = "TypeError"
     \/ e.aux = "add_goal"

\* reflect, new_core_memories: each entry that _mk_mem builds is appended and
\* the list is cut to its last MaxCoreMemories entries; an entry whose
\* construction raises is skipped
RECURSIVE ReflectCore(_, _, _)
ReflectCore(n, k, e) ==
  IF k = 0 THEN n
  ELSE IF mk_mem(e) = "TypeError" THEN ReflectCore(n, k - 1, e)
  ELSE ReflectCore(IF n + 1 > MaxCoreMemories THEN MaxCoreMemories ELSE n + 1,
                   k - 1, e)

\* reflect, new_memories: each entry that _mk_mem builds is appended; beyond
\* MaxMemories entries the oldest ones are marked archived and the list
\* keeps its length
RECURSIVE ReflectMemories(_, _, _)
ReflectMemories(n, k, e) ==
  IF k = 0 THEN n
  ELSE IF mk_mem(e) = "TypeError" THEN ReflectMemories(n, k - 1, e)
  ELSE ReflectMemories(n + 1, k - 1, e)

\* the payload of a reflect event, len(new_core_memories) and
\* len(new_memories), is kept in e.amt as one number
NewCoreMemories(e) == e.amt \div (MaxNew + 1)
NewMemories(e) == e.amt % (MaxNew + 1)

ApplyReflect(S, e) ==
  [S EXCEPT !.core[e.actor] = ReflectCore(@, NewCoreMemories(e), e),
            !.mem[e.actor] = ReflectMemories(@, NewMemories(e), e)]

ApplyEvent(S, e) ==
  CASE e.type = "move" -> ApplyMove(S, e)
    [] e.type = "grab" -> ApplyGrab(S, e)
    [] e.type = "drop" -> ApplyDrop(S, e)
    [] e.type = "eat" -> ApplyEat(S, e)
    [] e.type = "damage_applied" -> ApplyDamageApplied(S, e)
    [] e.type = "rest" -> ApplyRest(S, e)
    [] e.type = "equip" -> ApplyEquip(S, e)
    [] e.type = "unequip" -> ApplyUnequip(S, e)
    [] e.type = "give" -> ApplyGive(S, e)
    [] e.type \in {"open_connection", "close_connection"} -> ApplyOpenClose(S, e)
    [] e.type = "npc_died" -> ApplyNpcDied(S, e)
    [] e.type = "reason" -> ApplyReason(S, e)
    [] e.type = "reflect" -> ApplyReflect(S, e)
    [] OTHER -> S

\* ---------------------------------------------------------- combat_rules
ability_modifier(score) == (score - 10) \div 2

\* the item whose blueprint get_weapon returns, None for the unarmed blueprint
WeaponItem(S, a) ==
  IF S.slots[a]["main_hand"] # None /\ S.slots[a]["main_hand"] \in S.live
  THEN S.slots[a]["main_hand"] ELSE None

WeaponDie(S, a) ==
  IF WeaponItem(S, a) = None THEN UnarmedDie ELSE DamageDie(WeaponItem(S, a))

compute_ac(S, a) ==
  10 + (IF S.slots[a]["main_hand"] # None /\ S.slots[a]["main_hand"] \in S.live
        THEN ArmourRating(S.slots[a]["main_hand"]) ELSE 0)
     + ability_modifier(Dexterity(a))

\* the dice of one attack: the d20, the damage roll and the extra critical
\* roll; a damage roll is the lowest or the highest face of the weapon's die
D20Faces == {1, 15, 20}
Rolls ==
  {r \in [d20 : D20Faces, d1 : {"lo", "hi"}, d2 : {"lo", "hi"}] : r.d20 = 20 \/ r.d2 = "lo"}
NoRoll == [d20 |-> 1, d1 |-> "lo", d2 |-> "lo"]
Face(x, die) == IF x = "lo" THEN 1 ELSE die

resolve_attack(S, attacker, target, r) ==
  LET str_mod == ability_modifier(Strength(attacker))
      dex_mod == ability_modifier(Dexterity(attacker))
      attr_mod == IF WeaponItem(S, attacker) # None /\ IsFinesse(WeaponItem(S, attacker))
                  THEN Max2(str_mod, dex_mod) ELSE str_mod
      to_hit == r.d20 + attr_mod + ProfBonus(attacker)
      target_ac == compute_ac(S, target)
      hit == to_hit >= target_ac
  IN [hit |-> hit,
      damage |-> IF hit
                 THEN Face(r.d1, WeaponDie(S, attacker))
                      + (IF r.d20 = 20 THEN Face(r.d2, WeaponDie(S, attacker)) ELSE 0)
                      + attr_mod
                 ELSE 0,
      to_hit |-> to_hit, target_ac |-> target_ac]

\* ------------------------------------------------- conversation helpers
ConvId(speaker, tick) == <<speaker, tick>>

PutConv(convs, id, c) ==
  [k \in (DOMAIN convs) \cup {id} |-> IF k = id THEN c ELSE convs[k]]

DelConv(convs, id) == [k \in (DOMAIN convs) \ {id} |-> convs[k]]

\* Simulator._dissolve_conversation
DissolveConversation(S, id) ==
  IF id \notin DOMAIN S.convs THEN S
  ELSE LET ps == S.convs[id].participants IN
       [S EXCEPT !.convs = DelConv(S.convs, id),
                 !.aconv = [a \in Agents |->
                              IF InSeq(a, ps) /\ S.aconv[a] = id THEN NoConv
                              ELSE S.aconv[a]]]

\* Simulator._advance_conversation_turn
AdvanceConversationTurn(S, id, hint_target) ==
  IF id \notin DOMAIN S.convs THEN S
  ELSE
    LET convo == S.convs[id]
        current == convo.current_speaker
        participants == convo.participants
        to1 == SelectSeq(convo.turn_order, LAMBDA p : InSeq(p, participants) /\ p # current)
        to2 == IF hint_target # None /\ InSeq(hint_target, participants) /\ hint_target # current
               THEN <<hint_target>> \o Without(to1, hint_target) ELSE to1
        to3 == IF current # None /\ InSeq(current, participants)
               THEN Append(to2, current) ELSE to2
        next_speaker == IF Len(to3) > 0 THEN Head(to3) ELSE None
        to4 == IF Len(to3) > 0 THEN Tail(to3) ELSE to3
        S1 == [S EXCEPT !.convs[id].turn_order = to4,
                        !.convs[id].current_speaker = next_speaker,
                        !.convs[id].last_interaction_tick = S.tick]
    IN IF Len(participants) < 2 \/ next_speaker = None
       THEN DissolveConversation(S1, id) ELSE S1

\* Simulator._leave_conversation
LeaveConversation(S, actor) ==
  LET id == S.aconv[actor] IN
  IF id = NoConv THEN S
  ELSE IF id \notin DOMAIN S.convs THEN [S EXCEPT !.aconv[actor] = NoConv]
  ELSE
    LET was_current == S.convs[id].current_speaker = actor
        S1 == [S EXCEPT !.convs[id].participants = RemoveFirst(@, actor)]
        S2 == IF was_current
              THEN AdvanceConversationTurn(
                     [S1 EXCEPT !.convs[id].current_speaker = None], id, None)
              ELSE S1
        S3 == IF id \in DOMAIN S2.convs
              THEN [S2 EXCEPT !.convs[id].turn_order = Without(@, actor)]
              ELSE S2
        S4 == [S3 EXCEPT !.aconv[actor] = NoConv]
    IN IF Len(S1.convs[id].participants) < 2
       THEN DissolveConversation(S4, id)
       ELSE IF id \in DOMAIN S4.convs
            THEN [S4 EXCEPT !.convs[id].last_interaction_tick = S.tick]
            ELSE S4

\* Simulator._gc_conversations
StillHere(S, id) ==
  SelectSeq(S.convs[id].participants,
            LAMBDA p : FindNpcLocation(S, p) = S.convs[id].location_id)

GcRemovable(S, id) ==
  \/ S.tick - S.convs[id].last_interaction_tick > ConvTimeout
  \/ /\ S.convs[id].location_id # None
     /\ Len(StillHere(S, id)) < 2

RECURSIVE DissolveAll(_, _)
DissolveAll(S, ids) ==
  IF ids = {} THEN S
  ELSE LET id == CHOOSE x \in ids : TRUE
       IN DissolveAll(DissolveConversation(S, id), ids \ {id})

GcConversations(S) ==
  DissolveAll(S, {id \in DOMAIN S.convs : GcRemovable(S, id)})

\* ------------------------------------------------------- event handlers
\* (variant: the interjector's location is not compared with the
\* conversation's)
HandleInterjectFromAnywhere(S, e) ==
  LET speaker == e.actor IN
  IF e.conv \in DOMAIN S.convs
  THEN
    LET c0 == S.convs[e.conv]
        joins == ~InSeq(speaker, c0.participants)
        c1 == IF joins
              THEN [c0 EXCEPT !.participants = Append(@, speaker),
                              !.turn_order =
                                 IF speaker # c0.current_speaker /\ ~InSeq(speaker, @)
                                 THEN Append(@, speaker) ELSE @]
              ELSE c0
        c2 == [c1 EXCEPT !.history = Append(@, speaker),
                         !.last_interaction_tick = S.tick]
        S1 == [S EXCEPT !.convs[e.conv] = c2,
                        !.aconv[speaker] = IF joins THEN e.conv ELSE @]
    IN IF c1.current_speaker = speaker
       THEN AdvanceConversationTurn(S1, e.conv, e.tgt)
       ELSE S1
  ELSE S

\* Simulator._handle_talk, the interject branch
HandleInterject(S, e) ==
  LET speaker == e.actor
      current_loc == FindNpcLocation(S, speaker)
  IN
  IF e.conv \in DOMAIN S.convs
     /\ current_loc # None /\ current_loc = S.convs[e.conv].location_id
  THEN
    LET c0 == S.convs[e.conv]
        joins == ~InSeq(speaker, c0.participants)
        c1 == IF joins
              THEN [c0 EXCEPT !.participants = Append(@, speaker),
                              !.turn_order =
                                 IF speaker # c0.current_speaker /\ ~InSeq(speaker, @)
                                 THEN Append(@, speaker) ELSE @]
              ELSE c0
        c2 == [c1 EXCEPT !.history = Append(@, speaker),
                         !.last_interaction_tick = S.tick]
        S1 == [S EXCEPT !.convs[e.conv] = c2,
                        !.aconv[speaker] = IF joins THEN e.conv ELSE @]
    IN IF c1.current_speaker = speaker
       THEN AdvanceConversationTurn(S1, e.conv, e.tgt)
       ELSE S1
  ELSE S

\* Simulator._handle_talk
HandleTalk(S, e) ==
  LET speaker == e.actor
      target_id == e.tgt
      current_loc == FindNpcLocation(S, speaker)
  IN
  IF e.aux = "interject" /\ e.conv # NoConv
  THEN HandleInterject(S, e)
  ELSE
    IF S.aconv[speaker] = NoConv
    THEN
      LET participants ==
            IF target_id # None /\ FindNpcLocation(S, target_id) = current_loc
            THEN <<speaker, target_id>> ELSE <<speaker>>
          id == ConvId(speaker, S.tick)
          convo == [participants |-> participants,
                    turn_order |-> Without(participants, speaker),
                    current_speaker |-> speaker,
                    last_interaction_tick |-> S.tick,
                    history |-> <<speaker>>,
                    location_id |-> current_loc]
      IN IF Len(participants) < 2 THEN S
         ELSE AdvanceConversationTurn(
                [S EXCEPT !.convs = PutConv(S.convs, id, convo),
                          !.aconv = [a \in Agents |->
                                       IF InSeq(a, participants) THEN id ELSE S.aconv[a]]],
                id, target_id)
    ELSE
      LET id == S.aconv[speaker] IN
      IF id \in DOMAIN S.convs /\ S.convs[id].current_speaker = speaker
      THEN AdvanceConversationTurn(
             [S EXCEPT !.convs[id].history = Append(@, speaker),
                       !.convs[id].last_interaction_tick = S.tick],
             id, target_id)
      ELSE S

\* (variant: a hit enqueues the damage_applied ahead of the attack_hit)
HandleAttackAttemptDamageFirst(S, e, r) ==
  LET result == resolve_attack(S, e.actor, e.tgt, r) IN
  IF result.hit
  THEN [S EXCEPT !.queue = @ \o
          <<Ev("damage_applied", S.tick, e.actor, e.tgt, "attack", result.damage, NoConv),
            Ev("attack_hit", S.tick, e.actor, e.tgt, None, result.damage, NoConv)>>]
  ELSE [S EXCEPT !.queue = Append(@,
            Ev("attack_missed", S.tick, e.actor, e.tgt, None, 0, NoConv))]

\* Simulator._handle_attack_attempt: the follow-ups go to the tail of the queue
HandleAttackAttempt(S, e, r) ==
  LET result == resolve_attack(S, e.actor, e.tgt, r) IN
  IF result.hit
  THEN [S EXCEPT !.queue = @ \o
          <<Ev("attack_hit", S.tick, e.actor, e.tgt, None, result.damage, NoConv),
            Ev("damage_applied", S.tick, e.actor, e.tgt, "attack", result.damage, NoConv)>>]
  ELSE [S EXCEPT !.queue = Append(@,
            Ev("attack_missed", S.tick, e.actor, e.tgt, None, 0, NoConv))]

\* (variant: no npc_died event is enqueued when hp reaches 0)
HandleDamageAppliedNoDeath(S, e) ==
  LET S1 == ApplyEvent(S, e) IN
  IF S1.hp[e.tgt] <= 0 /\ ~S1.dead[e.tgt]
  THEN [S1 EXCEPT !.zeroed[e.tgt] = TRUE]
  ELSE S1

\* Simulator._handle_damage_applied
HandleDamageApplied(S, e) ==
  LET S1 == ApplyEvent(S, e) IN
  IF S1.hp[e.tgt] <= 0 /\ ~S1.dead[e.tgt]
  THEN [S1 EXCEPT !.queue = Append(@,
            Ev("npc_died", S.tick, e.tgt, FindNpcLocation(S1, e.tgt), None, 0, NoConv)),
                  !.zeroed[e.tgt] = TRUE]
  ELSE S1

\* Simulator._handle_toggle_starvation (amt = 1 for enabled, 0 for disabled)
HandleToggleStarvation(S, e) ==
  IF e.amt = 1 THEN [S EXCEPT !.starv = TRUE]
  ELSE [S EXCEPT !.starv = FALSE,
                 !.hunger = [a \in Agents |-> "sated"],
                 !.meal = [a \in Agents |-> S.tick]]

\* the entry of Simulator.event_handlers for the event's type; an event type
\* without a handler is applied to the world directly
RunHandler(S, e, r) ==
  CASE e.type = "talk" -> HandleTalk(S, e)
    [] e.type = "attack_attempt" -> HandleAttackAttempt(S, e, r)
    [] e.type = "damage_applied" -> HandleDamageApplied(S, e)
    [] e.type = "toggle_starvation" -> HandleToggleStarvation(S, e)
    [] e.type = "leave_conversation" -> LeaveConversation(S, e.actor)
    [] OTHER -> ApplyEvent(S, e)

HandlerRaises(S, e) == ApplyEventRaises(S, e)

\* events.make_perception_from_event: the fields of the PerceptionEvent that
\* tell perceptions apart here
Perception(e, location_id) ==
  [type |-> e.type, actor |-> e.actor, loc |-> location_id]

\* (variant: the entry is appended and nothing is popped)
AppendUncapped(mem, pe) == Append(mem, pe)

\* npc.short_term_memory.append(pe), then pop(0) while longer than the cap
AppendCapped(mem, pe) ==
  LET m == Append(mem, pe)
      cap == Max2(1, perception_buffer_size)
  IN IF Len(m) > cap THEN SubSeq(m, Len(m) - cap + 1, Len(m)) ELSE m

\* the location an event is perceived at
PerceptionLocation(S, e) ==
  IF e.type \in {"move", "npc_died"} THEN e.tgt
  ELSE FindNpcLocation(S, e.actor)

\* the occupants of the locations a noise made at location_id carries to: the
\* neighbours come from the static hex_connections, the status of the edge
\* from this side's connections_state, a missing entry counting as open
NoiseRecipients(S, e, location_id) ==
  IF e.type \in {"scream", "talk_loud"}
  THEN UNION {SeqToSet(S.occ[nb]) :
                nb \in {y \in Locs : /\ S.hex[location_id][y] # None
                                      /\ \/ e.type = "scream"
                                         \/ S.conn[location_id][y] \in {"open", "absent"}}}
  ELSE {}

\* Simulator.record_perception
RecordPerception(S, e) ==
  LET location_id == PerceptionLocation(S, e) IN
  IF e.type \in {"describe_location", "wait"} \/ location_id = None THEN S
  ELSE LET recipients == (SeqToSet(S.occ[location_id]) \ {e.actor})
                           \cup NoiseRecipients(S, e, location_id)
       IN [S EXCEPT !.stm = [a \in Agents |->
                               IF a \in recipients
                               THEN AppendCapped(S.stm[a], Perception(e, location_id))
                               ELSE S.stm[a]]]

\* Simulator.handle_event, when the handler returns normally
HandleEvent(S, e, r) == GcConversations(RecordPerception(RunHandler(S, e, r), e))

\* for event in ready_events: self.handle_event(event) -- an exception leaves
\* the loop; the events after the raising one are never handled
RECURSIVE RunBatch(_, _, _, _)
RunBatch(S, ready, i, rolls) ==
  IF i > Len(ready) THEN [s |-> S, raised |-> FALSE, dropped |-> 0]
  ELSE IF HandlerRaises(S, ready[i])
       THEN [s |-> S, raised |-> TRUE, dropped |-> Len(ready) - i]
       ELSE RunBatch(HandleEvent(S, ready[i],
                                 IF ready[i].type = "attack_attempt"
                                 THEN rolls[ready[i].actor]
                                 ELSE NoRoll),
                     ready, i + 1, rolls)

ReadyEvents(S) == SelectSeq(S.queue, LAMBDA e : e.tick <= S.tick)
LaterEvents(S) == SelectSeq(S.queue, LAMBDA e : e.tick > S.tick)

\* the drain loop of run_one_npc_turn: repeats until nothing is ready; the
\* whole loop sits in one try/except, so a raising handler ends it
RECURSIVE DrainLoop(_, _)
DrainAgain(R, rolls) == IF R.raised THEN R ELSE DrainLoop(R.s, rolls)

DrainLoop(S, rolls) ==
  IF Len(S.queue) = 0 \/ Len(ReadyEvents(S)) = 0
  THEN [s |-> S, raised |-> FALSE, dropped |-> 0]
  ELSE DrainAgain(RunBatch([S EXCEPT !.queue = LaterEvents(S)], ReadyEvents(S), 1, rolls),
                  rolls)

\* the attackers that have an attack_attempt waiting; each rolls its own dice
Attackers(q) == {q[i].actor : i \in {j \in 1..Len(q) : q[j].type = "attack_attempt"}}

RollChoices(q) == [Attackers(q) -> Rolls]

\* ---------------------------------------------------------------- tools
\* a command {tool, params}: tgt is target_location / target_id / item_id,
\* aux the slot, the recipient of give or the operation of reason, n the
\* ticks or the enabled flag, conv the conversation_id
Cmd(tool, tgt, aux, n, conv) ==
  [tool |-> tool, tgt |-> tgt, aux |-> aux, n |-> n, conv |-> conv]

NoCmd == Cmd(None, None, None, 0, NoConv)
WaitOne == Cmd("wait", None, None, 1, NoConv)

\* validate_intent and generate_events of each tool
\* (variant: the status of the edge is not looked at)
MoveValidateIgnoresStatus(S, actor, c) ==
  /\ c.tgt \in Locs
  /\ FindNpcLocation(S, actor) # None
  /\ S.conn[FindNpcLocation(S, actor)][c.tgt] # "absent"

MoveValidate(S, actor, c) ==
  /\ c.tgt \in Locs
  /\ FindNpcLocation(S, actor) # None
  /\ S.conn[FindNpcLocation(S, actor)][c.tgt] = "open"

MoveEvents(S, actor, c, tick) == <<Ev("move", tick, actor, c.tgt, None, 0, NoConv)>>

OpenValidate(S, actor, c) ==
  /\ c.tgt \in Locs
  /\ FindNpcLocation(S, actor) # None
  /\ S.conn[FindNpcLocation(S, actor)][c.tgt] = "closed"

OpenEvents(S, actor, c, tick) == <<Ev("open_connection", tick, actor, c.tgt, None, 0, NoConv)>>

CloseValidate(S, actor, c) ==
  /\ c.tgt \in Locs
  /\ FindNpcLocation(S, actor) # None
  /\ S.conn[FindNpcLocation(S, actor)][c.tgt] = "open"

CloseEvents(S, actor, c, tick) == <<Ev("close_connection", tick, actor, c.tgt, None, 0, NoConv)>>

GrabValidate(S, actor, c) ==
  /\ c.tgt \in S.live
  /\ FindNpcLocation(S, actor) # None
  /\ InSeq(c.tgt, S.litems[FindNpcLocation(S, actor)])

GrabEvents(S, actor, c, tick) == <<Ev("grab", tick, actor, c.tgt, None, 0, NoConv)>>

DropValidate(S, actor, c) == InSeq(c.tgt, S.inv[actor])

DropEvents(S, actor, c, tick) == <<Ev("drop", tick, actor, c.tgt, None, 0, NoConv)>>

AttackValidate(S, actor, c) ==
  /\ c.tgt \in Agents
  /\ ~S.dead[c.tgt]
  /\ FindNpcLocation(S, actor) # None
  /\ FindNpcLocation(S, actor) = FindNpcLocation(S, c.tgt)

AttackEvents(S, actor, c, tick) == <<Ev("attack_attempt", tick, actor, c.tgt, None, 0, NoConv)>>

TalkValidate(S, actor, c) ==
  \/ c.tgt = None
  \/ (c.tgt \in Agents /\ FindNpcLocation(S, actor) = FindNpcLocation(S, c.tgt))

TalkEvents(S, actor, c, tick) == <<Ev("talk", tick, actor, c.tgt, None, 0, NoConv)>>

InterjectValidate(S, actor, c) == c.conv # NoConv

InterjectEvents(S, actor, c, tick) == <<Ev("talk", tick, actor, None, "interject", 0, c.conv)>>

LeaveConversationEvents(S, actor, c, tick) ==
  <<Ev("leave_conversation", tick, actor, None, None, 0, NoConv)>>

LookEvents(S, actor, c, tick) ==
  IF FindNpcLocation(S, actor) = None THEN <<>>
  ELSE <<Ev("describe_location", tick, actor, None, None, 0, NoConv)>>

AnalyzeValidate(S, actor, c) ==
  \/ InSeq(c.tgt, S.inv[actor])
  \/ /\ FindNpcLocation(S, actor) # None
     /\ InSeq(c.tgt, S.litems[FindNpcLocation(S, actor)])

AnalyzeEvents(S, actor, c, tick) == <<Ev("analyze", tick, actor, c.tgt, None, 0, NoConv)>>

EquipValidate(S, actor, c) ==
  c.tgt # None /\ InSeq(c.tgt, S.inv[actor]) /\ c.aux \in Slots

EquipEvents(S, actor, c, tick) == <<Ev("equip", tick, actor, c.tgt, c.aux, 0, NoConv)>>

UnequipValidate(S, actor, c) == c.aux \in Slots /\ S.slots[actor][c.aux] # None

UnequipEvents(S, actor, c, tick) ==
  <<Ev("unequip", tick, actor, S.slots[actor][c.aux], c.aux, 0, NoConv)>>

EatValidate(S, actor, c) == InSeq(c.tgt, S.inv[actor]) /\ IsFood(c.tgt)

EatEvents(S, actor, c, tick) == <<Ev("eat", tick, actor, c.tgt, None, 0, NoConv)>>

GiveValidate(S, actor, c) ==
  /\ InSeq(c.tgt, S.inv[actor])
  /\ c.aux \in Agents
  /\ FindNpcLocation(S, actor) # None
  /\ FindNpcLocation(S, actor) = FindNpcLocation(S, c.aux)

GiveEvents(S, actor, c, tick) == <<Ev("give", tick, actor, c.tgt, c.aux, 0, NoConv)>>

ToggleStarvationEvents(S, actor, c, tick) ==
  <<Ev("toggle_starvation", tick, actor, None, None, c.n, NoConv)>>

WaitValidate(S, actor, c) == c.n >= 1

WaitEvents(S, actor, c, tick) == <<Ev("wait", tick, actor, None, None, c.n, NoConv)>>

RestValidate(S, actor, c) == c.n >= 1

RestEvents(S, actor, c, tick) == <<Ev("rest", tick, actor, None, None, c.n, NoConv)>>

ReasonEvents(S, actor, c, tick) == <<Ev("reason", tick, actor, None, c.aux, 0, NoConv)>>

\* ReflectTool.generate_events: one reflect event with the lists of the params
ReflectEvents(S, actor, c, tick) == <<Ev("reflect", tick, actor, None, None, c.n, NoConv)>>

\* tool.validate_intent(params, world, actor) of the tool the command names
ValidateIntent(S, actor, c) ==
  CASE c.tool = "move" -> MoveValidate(S, actor, c)
    [] c.tool = "open" -> OpenValidate(S, actor, c)
    [] c.tool = "close" -> CloseValidate(S, actor, c)
    [] c.tool = "grab" -> GrabValidate(S, actor, c)
    [] c.tool = "drop" -> DropValidate(S, actor, c)
    [] c.tool = "attack" -> AttackValidate(S, actor, c)
    [] c.tool = "talk" -> TalkValidate(S, actor, c)
    [] c.tool = "interject" -> InterjectValidate(S, actor, c)
    [] c.tool = "analyze" -> AnalyzeValidate(S, actor, c)
    [] c.tool = "equip" -> EquipValidate(S, actor, c)
    [] c.tool = "unequip" -> UnequipValidate(S, actor, c)
    [] c.tool = "eat" -> EatValidate(S, actor, c)
    [] c.tool = "give" -> GiveValidate(S, actor, c)
    [] c.tool = "wait" -> WaitValidate(S, actor, c)
    [] c.tool = "rest" -> RestValidate(S, actor, c)
    [] OTHER -> TRUE

\* tool.generate_events(params, world, actor, game_tick)
GenerateEvents(S, actor, c, tick) ==
  CASE c.tool = "move" -> MoveEvents(S, actor, c, tick)
    [] c.tool = "open" -> OpenEvents(S, actor, c, tick)
    [] c.tool = "close" -> CloseEvents(S, actor, c, tick)
    [] c.tool = "grab" -> GrabEvents(S, actor, c, tick)
    [] c.tool = "drop" -> DropEvents(S, actor, c, tick)
    [] c.tool = "attack" -> AttackEvents(S, actor, c, tick)
    [] c.tool = "talk" -> TalkEvents(S, actor, c, tick)
    [] c.tool = "interject" -> InterjectEvents(S, actor, c, tick)
    [] c.tool = "leave_conversation" -> LeaveConversationEvents(S, actor, c, tick)
    [] c.tool = "look" -> LookEvents(S, actor, c, tick)
    [] c.tool = "analyze" -> AnalyzeEvents(S, actor, c, tick)
    [] c.tool = "equip" -> EquipEvents(S, actor, c, tick)
    [] c.tool = "unequip" -> UnequipEvents(S, actor, c, tick)
    [] c.tool = "eat" -> EatEvents(S, actor, c, tick)
    [] c.tool = "give" -> GiveEvents(S, actor, c, tick)
    [] c.tool = "toggle_starvation" -> ToggleStarvationEvents(S, actor, c, tick)
    [] c.tool = "wait" -> WaitEvents(S, actor, c, tick)
    [] c.tool = "rest" -> RestEvents(S, actor, c, tick)
    [] c.tool = "reason" -> ReasonEvents(S, actor, c, tick)
    [] c.tool = "reflect" -> ReflectEvents(S, actor, c, tick)
    [] OTHER -> <<Ev(c.tool, tick, actor, None, None, c.n, NoConv)>>

\* (variant: the ticks of wait and rest are not looked at)
EffectiveTimeCostIgnoresTicks(c) == TimeCostOf(c.tool)

\* time_cost = tool.time_cost, or max(1, ticks) for wait and rest
EffectiveTimeCost(c) ==
  IF c.tool \in {"wait", "rest"} THEN Max2(1, c.n) ELSE TimeCostOf(c.tool)

\* (variant: next_available_tick is set before the intent is validated)
ProcessCommandOnMarksBusyFirst(S, registry, actor, c) ==
  IF c.tool \notin registry THEN [s |-> S, result |-> "unknown_tool"]
  ELSE IF S.nat[actor] > S.tick THEN [s |-> S, result |-> "busy"]
  ELSE IF ~ValidateIntent(S, actor, c)
       THEN [s |-> [S EXCEPT !.nat[actor] = S.tick + EffectiveTimeCost(c)],
             result |-> "invalid"]
  ELSE [s |-> [S EXCEPT !.queue = @ \o GenerateEvents(S, actor, c, S.tick),
                        !.nat[actor] = S.tick + EffectiveTimeCost(c)],
        result |-> "ok"]

\* (variant: the busy check is missing)
ProcessCommandOnIgnoresBusy(S, registry, actor, c) ==
  IF c.tool \notin registry THEN [s |-> S, result |-> "unknown_tool"]
  ELSE IF ~ValidateIntent(S, actor, c) THEN [s |-> S, result |-> "invalid"]
  ELSE [s |-> [S EXCEPT !.queue = @ \o GenerateEvents(S, actor, c, S.tick),
                        !.nat[actor] = S.tick + EffectiveTimeCost(c)],
        result |-> "ok"]

\* Simulator.process_command: the new state and how the call returned
ProcessCommandOn(S, registry, actor, c) ==
  IF c.tool \notin registry THEN [s |-> S, result |-> "unknown_tool"]
  ELSE IF S.nat[actor] > S.tick THEN [s |-> S, result |-> "busy"]
  ELSE IF ~ValidateIntent(S, actor, c) THEN [s |-> S, result |-> "invalid"]
  ELSE [s |-> [S EXCEPT !.queue = @ \o GenerateEvents(S, actor, c, S.tick),
                        !.nat[actor] = S.tick + EffectiveTimeCost(c)],
        result |-> "ok"]

\* the commands a caller or the planner may submit in state S: every
\* parameter choice of the registered tools, and one unregistered tool
AllCommands(S) ==
  {Cmd(t, l, None, 0, NoConv) : t \in {"move", "open", "close"}, l \in Locs}
  \cup {Cmd(t, i, None, 0, NoConv) : t \in {"grab", "drop", "eat", "analyze"}, i \in Items}
  \cup {Cmd("equip", i, sl, 0, NoConv) : i \in Items, sl \in Slots}
  \cup {Cmd("unequip", None, sl, 0, NoConv) : sl \in Slots}
  \cup {Cmd("give", i, a, 0, NoConv) : i \in Items, a \in Agents}
  \cup {Cmd("attack", a, None, 0, NoConv) : a \in Agents}
  \cup {Cmd("talk", a, None, 0, NoConv) : a \in Agents \cup {None}}
  \cup {Cmd("interject", None, None, 0, id) : id \in (DOMAIN S.convs) \cup {ConvId("p1", MaxTick + 1)}}
  \cup {Cmd(t, None, None, 0, NoConv) :
          t \in {"leave_conversation", "look", "inventory", "stats", "talk_loud", "scream", "dance"}}
  \cup {Cmd(t, None, None, n, NoConv) : t \in {"wait", "rest"}, n \in 0..MaxWait}
  \cup {Cmd("toggle_starvation", None, None, n, NoConv) : n \in {0, 1}}
  \cup {Cmd("reason", None, x, 0, NoConv) : x \in {"add_memory", "update_relationship"}}
  \cup {Cmd("reflect", None, None, k * (MaxNew + 1) + n, NoConv) :
          k \in 0..MaxNew, n \in 0..MaxNew}

Commands(S, registry) == {c \in AllCommands(S) : c.tool \in registry \cup {"dance"}}

\* ------------------------------------------------------- NPCPlanner.plan
\* valid_tools of NPCPlanner.plan
PlannerTools == AllTools \ {"reason"}

NoneKinds == {"garbage", "empty_object", "null_tool"}

\* an LLM reply: unparseable text, the connector's empty object, a null tool,
\* or a command; schema_ok says whether the params pass _validate_schema, and
\* repair is the command of the second reply (NoCmd when that is unusable)
Reply(kind, c, schema_ok, repair) ==
  [kind |-> kind, cmd |-> c, schema_ok |-> schema_ok, repair |-> repair]

Plan(reply) ==
  IF reply.kind \in NoneKinds THEN NoCmd
  ELSE IF reply.cmd.tool \notin PlannerTools THEN WaitOne
  ELSE IF reply.schema_ok THEN reply.cmd
  ELSE IF reply.repair # NoCmd /\ reply.repair.tool \in PlannerTools THEN reply.repair
  ELSE WaitOne

CommandReplies(S, registry) ==
  {Reply("command", c, TRUE, NoCmd) : c \in Commands(S, registry)}
  \cup {Reply("command", Cmd("attack", None, None, 0, NoConv), FALSE, r) :
          r \in {NoCmd, Cmd("look", None, None, 0, NoConv)}}

\* NPCPlanner.plan on the parsed replies themselves.  params is a function
\* from the keys present to the kind of their value: "str" a non-empty
\* string, "num" a number other than 0, "one" the number 1
PlanKeys == {"target_location", "location_id", "target", "to", "target_id",
             "content", "item_id", "slot", "enabled", "conversation_id",
             "ticks"}

\* _SCHEMAS[t]["required"]
SchemaRequired(t) ==
  CASE t \in {"open", "close"} -> {"target_location"}
    [] t = "attack" -> {"target_id"}
    [] t \in {"talk", "talk_loud", "scream"} -> {"content"}
    [] t \in {"grab", "drop", "analyze", "eat"} -> {"item_id"}
    [] t = "equip" -> {"item_id", "slot"}
    [] t = "unequip" -> {"slot"}
    [] t = "give" -> {"item_id", "target_id"}
    [] t = "toggle_starvation" -> {"enabled"}
    [] t = "interject" -> {"conversation_id", "content"}
    [] OTHER -> {}

\* _SCHEMAS[t]["one_of"]
SchemaOneOf(t) == IF t = "move" THEN {{"target_location"}} ELSE {}

\* _validate_schema(t, p) returns None
validate_schema(t, p) ==
  /\ SchemaRequired(t) \subseteq DOMAIN p
  /\ \A group \in SchemaOneOf(t) : group \cap DOMAIN p # {}

\* p.get(k1) or p.get(k2) or ...: the first value present (every value kind
\* here is truthy), None when there is none
FirstOf(p, keys) ==
  IF \E i \in 1..Len(keys) : keys[i] \in DOMAIN p
  THEN p[keys[CHOOSE i \in 1..Len(keys) :
                 /\ keys[i] \in DOMAIN p
                 /\ \A j \in 1..(i-1) : keys[j] \notin DOMAIN p]]
  ELSE None

\* p[k] = v
SetParam(p, k, v) == [x \in (DOMAIN p) \cup {k} |-> IF x = k THEN v ELSE p[x]]

\* _normalize(t, p)
normalize(t, p) ==
  CASE t \in {"talk", "talk_loud", "scream"} -> SetParam(p, "content", "str")
    [] t = "move" ->
         IF FirstOf(p, <<"target_location", "location_id", "target", "to">>) = "str"
         THEN SetParam(p, "target_location", "str") ELSE p
    [] t \in {"open", "close"} ->
         IF FirstOf(p, <<"target_location", "location_id", "target">>) = "str"
         THEN SetParam(p, "target_location", "str") ELSE p
    [] t = "attack" ->
         IF FirstOf(p, <<"target_id", "target">>) = "str"
         THEN SetParam(p, "target_id", "str") ELSE p
    [] OTHER -> p

\* a parsed reply: kind "garbage" when the extractor gives no dict
Parsed(kind, tool, params) == [kind |-> kind, tool |-> tool, params |-> params]

NoPlan == [tool |-> None, params |-> <<>>]
WaitPlan == [tool |-> "wait", params |-> [k \in {"ticks"} |-> "one"]]

\* the reply is a dict that names a tool
NamesTool(parsed) == parsed.kind = "object" /\ parsed.tool \notin {None, "null"}

\* stage 1 of plan() neither returns nor falls back: _stage2_repair is called
NeedsRepair(parsed) ==
  /\ NamesTool(parsed) /\ parsed.tool \in PlannerTools
  /\ ~validate_schema(parsed.tool, normalize(parsed.tool, parsed.params))

\* (variant: the repaired reply is returned without being validated)
planTrustsRepair(parsed, parsed2) ==
  IF ~NamesTool(parsed) THEN NoPlan
  ELSE IF parsed.tool \notin PlannerTools THEN WaitPlan
  ELSE IF ~NeedsRepair(parsed)
       THEN [tool |-> parsed.tool, params |-> normalize(parsed.tool, parsed.params)]
  ELSE IF parsed2.kind = "object"
       THEN [tool |-> parsed2.tool, params |-> normalize(parsed2.tool, parsed2.params)]
  ELSE WaitPlan

\* NPCPlanner.plan: parsed is the first reply, parsed2 the reply to the
\* repair request (looked at only when NeedsRepair(parsed))
plan(parsed, parsed2) ==
  IF ~NamesTool(parsed) THEN NoPlan
  ELSE IF parsed.tool \notin PlannerTools THEN WaitPlan
  ELSE IF ~NeedsRepair(parsed)
       THEN [tool |-> parsed.tool, params |-> normalize(parsed.tool, parsed.params)]
  ELSE IF /\ parsed2.kind = "object" /\ parsed2.tool \in PlannerTools
          /\ validate_schema(parsed2.tool, normalize(parsed2.tool, parsed2.params))
       THEN [tool |-> parsed2.tool, params |-> normalize(parsed2.tool, parsed2.params)]
  ELSE WaitPlan

\* the replies tried: every tool name of the planner, an unknown name, a
\* tool that is registered but unknown to the planner, the string null and
\* no tool at all, with up to two params; target and target_location also
\* with a value that is no string
ParamValues(k) == IF k \in {"target", "target_location"} THEN {"str", "num"} ELSE {"str"}

ParamSets ==
  UNION {{p \in [K -> {"str", "num"}] : \A k \in K : p[k] \in ParamValues(k)} :
           K \in {X \in SUBSET PlanKeys : Cardinality(X) <= 2}}

ReplyTools == PlannerTools \cup {"dance", "reason", "null", None}

FirstReplies ==
  {Parsed("garbage", None, <<>>)}
  \cup {Parsed("object", t, p) : t \in ReplyTools, p \in ParamSets}

RepairParams ==
  UNION {[K -> {"str"}] : K \in SUBSET {"target_id", "target", "item_id", "slot"}}

RepairReplies ==
  {Parsed("garbage", None, <<>>)}
  \cup {Parsed("object", t, p) : t \in {"attack", "equip", "look", "dance"},
                                  p \in RepairParams}

\* --------------------------------------------------------------- actions
Log(a, t) == [accepted EXCEPT ![a] = Append(@, t)]

\* Simulator.process_command(actor_id, command)
ProcessCommandEnds(R, actor, c) ==
  /\ Commit(R.s)
  /\ last_call' = [op |-> "process_command", result |-> R.result, raised |-> FALSE]
  /\ accepted' = IF R.result = "ok" THEN Log(actor, c.tool) ELSE accepted
  /\ commands_run' = IF R.result = "ok" THEN commands_run + 1 ELSE commands_run

ProcessCommand(actor, c) ==
  /\ ProcessCommandEnds(ProcessCommandOn(State, tools, actor, c), actor, c)
  /\ UNCHANGED <<tools, npc_turn_order, current_npc_index, planned, plan_failed, round_plans,
                 dropped, overdue>>

\* the registry of the scenario of conversation turns
TurnTools == {"talk", "interject", "leave_conversation"}

\* how many accepted commands a scenario is followed for: opening a
\* conversation, joining it and leaving it take three
CommandBudget == IF tools = TurnTools THEN MaxCommands + 1 ELSE MaxCommands

\* the front ends submit the player's commands
SubmitCommand ==
  /\ commands_run < CommandBudget
  /\ \E c \in Commands(State, tools) : ProcessCommand(player_id, c)
  /\ UNCHANGED <<reqVars, loopVars>>

\* Simulator.tick()
\* the end of tick(): R is what the loop over the ready events left
TickEnds(R) ==
  /\ Commit(R.s)
  /\ last_call' = [op |-> "tick", result |-> IF R.raised THEN "raised" ELSE "ok",
                   raised |-> R.raised]
  /\ dropped' = R.dropped
  /\ overdue' = [a \in Agents |-> zeroed[a] /\ ~R.s.dead[a]]

TickCall ==
  /\ LET S0 == [State EXCEPT !.tick = game_tick + 1]
         S1 == IF S0.starv THEN UpdateHunger(S0, S0.tick) ELSE S0
         ready == ReadyEvents(S1)
         S2 == [S1 EXCEPT !.queue = LaterEvents(S1)]
     IN \E rolls \in RollChoices(ready) : TickEnds(RunBatch(S2, ready, 1, rolls))
  /\ accepted' = [a \in Agents |-> <<>>]
  /\ round_plans' = [n \in Agents |-> "none"]
  /\ UNCHANGED <<tools, npc_turn_order, current_npc_index, planned, plan_failed,
                 commands_run>>

Tick == game_tick < MaxTick /\ TickCall

\* sorted([nid for nid in world.npcs if nid != player_id])
SortedNpcs == SelectSeq(AgentOrder, LAMBDA a : a # player_id)

Eligible(S, nid) == ~S.dead[nid] /\ S.nat[nid] <= S.tick

\* the runtime guard of run_one_npc_turn: speech is blocked when the actor's
\* conversation has another current_speaker (variant: nothing is blocked)
GuardTalkBlocksNothing(S, nid, action) == action

GuardTalk(S, nid, action) ==
  LET in_convo == S.aconv[nid] # NoConv /\ S.aconv[nid] \in DOMAIN S.convs IN
  IF in_convo /\ S.convs[S.aconv[nid]].current_speaker # nid
     /\ action.tool = "talk"
  THEN WaitOne ELSE action

\* the state of run_one_npc_turn before its drain loop
NoDrain(S, rolls) == [s |-> S, raised |-> FALSE, dropped |-> 0]

\* (variant: run_one_npc_turn ends with a tick of the clock)
NpcTurnEndsAdvancesClock(P, D, nid, pos, reply, action) ==
  /\ current_npc_index' = pos + 1
  /\ planned' = [n \in Agents |->
                  IF n = nid /\ Plan(reply).tool = "talk" THEN "talk" ELSE None]
  /\ Commit([D.s EXCEPT !.tick = @ + 1])
  /\ last_call' = [op |-> "run_one_npc_turn", result |-> P.result,
                   raised |-> D.raised]
  /\ dropped' = D.dropped
  /\ accepted' = IF P.result = "ok" THEN Log(nid, action.tool) ELSE accepted
  /\ commands_run' = IF P.result = "ok" THEN commands_run + 1 ELSE commands_run

\* the end of run_one_npc_turn: P is what process_command returned, D what
\* the drain loop left
NpcTurnEnds(P, D, nid, pos, reply, action) ==
  /\ current_npc_index' = pos + 1
  /\ planned' = [n \in Agents |->
                  IF n = nid /\ Plan(reply).tool = "talk" THEN "talk" ELSE None]
  /\ Commit(D.s)
  /\ last_call' = [op |-> "run_one_npc_turn", result |-> P.result,
                   raised |-> D.raised]
  /\ dropped' = D.dropped
  /\ accepted' = IF P.result = "ok" THEN Log(nid, action.tool) ELSE accepted
  /\ commands_run' = IF P.result = "ok" THEN commands_run + 1 ELSE commands_run

NpcDrain(P, nid, pos, reply, action, to_the_end) ==
  \E rolls \in RollChoices(P.s.queue) :
    NpcTurnEnds(P, IF to_the_end THEN DrainLoop(P.s, rolls) ELSE NoDrain(P.s, rolls),
                nid, pos, reply, action)

\* the NPC nid, at position pos of the order, acts on the reply
NpcCommand(S, nid, pos, reply, action, to_the_end) ==
  NpcDrain(ProcessCommandOn(S, tools, nid, action), nid, pos, reply, action,
           to_the_end)

\* Simulator.run_one_npc_turn(), with its drain loop (to_the_end) or up to it;
\* kinds tells, for each NPC, whether the LLM
\* answers with a command or with something plan() turns into None; reply is
\* the answer given to the NPC that gets a command
NpcTurnWith(to_the_end) ==
  LET refresh == npc_turn_order = <<>> \/ current_npc_index >= Len(npc_turn_order)
      order == IF refresh THEN SortedNpcs ELSE npc_turn_order
      start == IF refresh THEN 0 ELSE current_npc_index
      S == State
      \* 0-based positions still to scan whose NPC is neither dead nor busy
      cand == {i \in start..(Len(order) - 1) : Eligible(S, order[i + 1])}
  IN
  /\ commands_run < CommandBudget
  /\ \E kinds \in [SeqToSet(SortedNpcs) -> NoneKinds \cup {"command"}] :
    LET acting == {i \in cand : kinds[order[i + 1]] = "command"}
        pos == IF acting = {} THEN Len(order)
               ELSE CHOOSE i \in acting : \A j \in acting : i <= j
        consulted == {order[i + 1] : i \in {j \in cand : j <= pos}}
    IN
    \* the NPCs that are not consulted get no reply: fix their kind
    /\ \A n \in SeqToSet(SortedNpcs) \ consulted : kinds[n] = "garbage"
    /\ npc_turn_order' = order
    /\ plan_failed' = [n \in Agents |-> n \in consulted /\ kinds[n] \in {"garbage", "empty_object"}]
    /\ round_plans' = [n \in Agents |->
                         LET before == IF current_npc_index = 0 THEN "none"
                                       ELSE round_plans[n]
                         IN IF n \notin consulted THEN before
                            ELSE IF before = "none" THEN "once" ELSE "again"]
    /\ UNCHANGED <<tools, overdue>>
    /\ IF acting = {}
       THEN /\ current_npc_index' = 0
            /\ last_call' = [op |-> "run_one_npc_turn", result |-> "false", raised |-> FALSE]
            /\ Commit(S)
            /\ planned' = [n \in Agents |-> None]
            /\ UNCHANGED <<dropped, accepted, commands_run>>
       ELSE
         \E reply \in CommandReplies(S, tools) :
           NpcCommand(S, order[pos + 1], pos, reply,
                      GuardTalk(S, order[pos + 1], Plan(reply)), to_the_end)

RunOneNpcTurn == NpcTurnWith(TRUE)

\* a front end with one thread of control calls the simulator's methods one
\* after the other
NpcTurn == RunOneNpcTurn /\ UNCHANGED <<reqVars, loopVars>>

AdvanceTime == Tick /\ UNCHANGED <<reqVars, loopVars>>

Next == SubmitCommand \/ NpcTurn \/ AdvanceTime

\* one pass of the front ends' loop `while sim.event_queue: sim.tick()`; the
\* loop is followed for MaxDrain ticks per command past the clock's bound
QueueTick ==
  /\ event_queue # <<>>
  /\ game_tick < MaxTick + MaxDrain * MaxCommands
  /\ TickCall
  /\ UNCHANGED <<reqVars, loopVars>>

NextDrain == SubmitCommand \/ NpcTurn \/ AdvanceTime \/ QueueTick

\* what every pass of the loop does to the clock; tick() itself has no
\* precondition, so a pass is possible exactly when the loop's guard holds
LoopPass ==
  /\ event_queue # <<>>
  /\ game_tick < MaxTick + MaxDrain * MaxCommands
  /\ game_tick' = game_tick + 1

\* ------------------------------------- the drains, event by event
\* The same calls with every handle_event of their loops as a step of its
\* own; no other call starts while a loop is under way.
StepCommand ==
  /\ draining = "no"
  /\ commands_run < CommandBudget
  /\ \E c \in Commands(State, tools) : ProcessCommand(player_id, c)
  /\ UNCHANGED <<reqVars, loopVars>>

\* run_one_npc_turn up to and including its process_command call
StepNpcCommand ==
  /\ draining = "no"
  /\ NpcTurnWith(FALSE)
  /\ draining' = IF last_call'.result = "false" THEN "no" ELSE "npc"
  /\ UNCHANGED <<reqVars, ready_events>>

\* tick() up to the for loop over ready_events
StepTick ==
  /\ draining = "no"
  /\ game_tick < MaxTick
  /\ LET S0 == [State EXCEPT !.tick = game_tick + 1]
         S1 == IF S0.starv THEN UpdateHunger(S0, S0.tick) ELSE S0
     IN /\ Commit([S1 EXCEPT !.queue = LaterEvents(S1)])
        /\ ready_events' = ReadyEvents(S1)
        /\ draining' = IF ReadyEvents(S1) = <<>> THEN "no" ELSE "tick"
  /\ last_call' = [op |-> "tick", result |-> "ok", raised |-> FALSE]
  /\ accepted' = [a \in Agents |-> <<>>]
  /\ dropped' = 0
  /\ overdue' = [a \in Agents |-> FALSE]
  /\ round_plans' = [n \in Agents |-> "none"]
  /\ UNCHANGED <<tools, npc_turn_order, current_npc_index, planned, plan_failed,
                 commands_run, reqVars>>

\* the head of the drain loop of run_one_npc_turn: fetch the ready events, or
\* leave the loop when there are none
StepFetch ==
  /\ draining = "npc" /\ ready_events = <<>>
  /\ Commit([State EXCEPT !.queue = LaterEvents(State)])
  /\ ready_events' = ReadyEvents(State)
  /\ draining' = IF ReadyEvents(State) = <<>> THEN "no" ELSE "npc"
  /\ UNCHANGED <<tools, npc_turn_order, current_npc_index, last_call, planned,
                 plan_failed, round_plans, dropped, accepted, commands_run, overdue, reqVars>>

\* one iteration of `for event in ready_events: self.handle_event(event)`;
\* an exception ends the loop (and, in tick(), the call)
StepHandle ==
  /\ ready_events # <<>>
  /\ LET e == Head(ready_events) IN
     IF HandlerRaises(State, e)
     THEN /\ Commit(State)
          /\ ready_events' = <<>>
          /\ draining' = "no"
          /\ dropped' = Len(ready_events) - 1
          /\ last_call' = [last_call EXCEPT !.raised = TRUE]
     ELSE /\ \E r \in IF e.type = "attack_attempt" THEN Rolls ELSE {NoRoll} :
               Commit(HandleEvent(State, e, r))
          /\ ready_events' = Tail(ready_events)
          /\ draining' = IF draining = "tick" /\ Tail(ready_events) = <<>>
                         THEN "no" ELSE draining
          /\ UNCHANGED <<dropped, last_call>>
  /\ UNCHANGED <<tools, npc_turn_order, current_npc_index, planned, plan_failed, round_plans,
                 accepted, commands_run, overdue, reqVars>>

NextStep == StepCommand \/ StepNpcCommand \/ StepTick \/ StepFetch \/ StepHandle

\* ------------------------------------------------------------ the editor
\* the editor endpoints of the web server; each is one call on the simulator
\* between two calls of the game loop
EditorIdle == draining = "no" /\ ready_events = <<>>

EditorRest ==
  UNCHANGED <<tools, npc_turn_order, current_npc_index, last_call, planned,
              plan_failed, round_plans, dropped, accepted, commands_run, overdue, reqVars,
              loopVars>>

\* /api/locations/connect
ApiLocConnect ==
  /\ EditorIdle
  /\ \E a \in Locs, b \in Locs, status \in {"open", "closed"} :
       /\ a # b
       /\ Commit(GmConnectLocations(State, a, b, status))
  /\ EditorRest

\* /api/locations/disconnect
ApiLocDisconnect ==
  /\ EditorIdle
  /\ \E a \in Locs, b \in Locs :
       /\ a # b
       /\ Commit(GmDisconnectLocations(State, a, b))
  /\ EditorRest

\* /api/edges/status
ApiEdgeStatus ==
  /\ EditorIdle
  /\ \E a \in Locs, b \in Locs, status \in {"open", "closed"} :
       /\ a # b
       /\ Commit(GmSetEdgeStatus(State, a, b, status))
  /\ EditorRest

\* Simulator._gm_add_memory: apply_event on a reason/add_memory event inside
\* try/except, so a raise leaves the world as it was
GmAddMemory(S, npc) ==
  IF ApplyEventRaises(S, Ev("reason", S.tick, npc, None, "add_memory", 0, NoConv))
  THEN S
  ELSE ApplyEvent(S, Ev("reason", S.tick, npc, None, "add_memory", 0, NoConv))

\* Simulator._gm_add_goal: the same with add_goal, which touches NPC.goals only
GmAddGoal(S, npc) ==
  IF ApplyEventRaises(S, Ev("reason", S.tick, npc, None, "add_goal", 0, NoConv))
  THEN S
  ELSE ApplyEvent(S, Ev("reason", S.tick, npc, None, "add_goal", 0, NoConv))

\* Simulator._gm_remove_memory: pop the last memory if there is one
GmRemoveMemory(S, npc) ==
  IF S.mem[npc] > 0 THEN [S EXCEPT !.mem[npc] = @ - 1] ELSE S

\* the npc_id values the editor requests are followed for
EditedNpcs == {"n1"}

\* /api/npcs/memory/add
ApiNpcMemoryAdd ==
  /\ EditorIdle
  /\ \E npc \in EditedNpcs : Commit(GmAddMemory(State, npc))
  /\ EditorRest

\* /api/npcs/goal/add
ApiNpcGoalAdd ==
  /\ EditorIdle
  /\ \E npc \in EditedNpcs : Commit(GmAddGoal(State, npc))
  /\ EditorRest

\* /api/npcs/memory/remove; followed while the list is less than MaxNew
\* entries below its cap
ApiNpcMemoryRemove ==
  /\ EditorIdle
  /\ \E npc \in EditedNpcs :
       /\ memories[npc] + MaxNew > MaxMemories
       /\ Commit(GmRemoveMemory(State, npc))
  /\ EditorRest

\* for item_id in all_items: if item_id not in st.items: st.items.append(item_id)
RECURSIVE AppendNew(_, _)
AppendNew(items, ids) ==
  IF ids = <<>> THEN items
  ELSE AppendNew(IF InSeq(Head(ids), items) THEN items ELSE Append(items, Head(ids)),
                 Tail(ids))

\* Simulator._gm_delete_npc: the new state and what the call returned
GmDeleteNpc(S, npc_id) ==
  IF npc_id \notin S.npcs THEN [s |-> S, result |-> "false"]
  ELSE
    LET S1 == LeaveConversation(S, npc_id)
        loc_id == FindNpcLocation(S1, npc_id)
        all_items == CarriedItems(S1, npc_id)
        S2 == IF loc_id # None /\ loc_id \in S1.locs
              THEN [S1 EXCEPT !.slots[npc_id] = [sl \in Slots |-> None],
                              !.litems[loc_id] = AppendNew(@, all_items),
                              !.owner = SetInst(S1, @, all_items, None),
                              !.iloc = SetInst(S1, @, all_items, loc_id),
                              !.inv[npc_id] = <<>>,
                              !.occ[loc_id] = RemoveFirst(@, npc_id)]
              ELSE S1
    IN [s |-> [S2 EXCEPT !.npcs = @ \ {npc_id}], result |-> "true"]

\* Simulator._gm_delete_item
GmDeleteItem(S, item_id) ==
  IF item_id \notin S.live THEN [s |-> S, result |-> "false"]
  ELSE
    LET owner == S.owner[item_id]
        S1 == IF owner # None /\ owner \in S.npcs
              THEN [S EXCEPT !.inv[owner] = RemoveFirst(@, item_id),
                             !.slots[owner] = [sl \in Slots |->
                                                 IF @[sl] = item_id THEN None ELSE @[sl]]]
              ELSE S
        at == S.iloc[item_id]
        S2 == IF at # None /\ at \in S.locs
              THEN [S1 EXCEPT !.litems[at] = RemoveFirst(@, item_id)]
              ELSE S1
    IN [s |-> [S2 EXCEPT !.live = @ \ {item_id}], result |-> "true"]

\* Simulator._gm_delete_location: refused while the location has occupants;
\* the edges to and from it go, its items are taken off its list and keep
\* their instances
GmDeleteLocation(S, location_id) ==
  IF location_id \notin S.locs THEN [s |-> S, result |-> "true"]
  ELSE IF S.occ[location_id] # <<>> THEN [s |-> S, result |-> "false"]
  ELSE
    [s |-> [S EXCEPT
              !.conn = [x \in Locs |-> [y \in Locs |->
                          IF x = location_id \/ y = location_id THEN "absent"
                          ELSE S.conn[x][y]]],
              !.dir = [x \in Locs |-> [y \in Locs |->
                         IF x = location_id \/ y = location_id THEN None
                         ELSE S.dir[x][y]]],
              !.iloc = SetInst(S, @, S.litems[location_id], None),
              !.litems[location_id] = <<>>,
              !.hex[location_id] = [y \in Locs |-> None],
              !.locs = @ \ {location_id}],
     result |-> "true"]

\* what an editor delete call leaves behind
DeleteEnds(op, R) ==
  /\ Commit(R.s)
  /\ last_call' = [op |-> op, result |-> R.result, raised |-> FALSE]
  /\ UNCHANGED <<tools, npc_turn_order, current_npc_index, planned, plan_failed,
                 round_plans, dropped, accepted, commands_run, overdue, reqVars,
                 loopVars>>

\* /api/npcs/delete
ApiNpcDelete ==
  /\ EditorIdle
  /\ \E npc_id \in Agents : DeleteEnds("gm_delete_npc", GmDeleteNpc(State, npc_id))

\* /api/items/delete
ApiItemDelete ==
  /\ EditorIdle
  /\ \E item_id \in Items : DeleteEnds("gm_delete_item", GmDeleteItem(State, item_id))

\* /api/locations/delete
ApiLocDelete ==
  /\ EditorIdle
  /\ \E location_id \in Locs :
       DeleteEnds("gm_delete_location", GmDeleteLocation(State, location_id))

DeleteOps == {"gm_delete_npc", "gm_delete_item", "gm_delete_location"}

\* the game is followed up to the editor's first delete call, the editor
\* from there on
BeforeDeletes == last_call.op \notin DeleteOps

NextDelete ==
  \/ BeforeDeletes /\ SubmitCommand
  \/ BeforeDeletes /\ NpcTurn
  \/ BeforeDeletes /\ AdvanceTime
  \/ ApiNpcDelete \/ ApiItemDelete \/ ApiLocDelete

NextMemory ==
  \/ StepCommand \/ StepNpcCommand \/ StepTick \/ StepFetch \/ StepHandle
  \/ ApiNpcMemoryAdd \/ ApiNpcGoalAdd \/ ApiNpcMemoryRemove

NextEdit ==
  \/ StepCommand \/ StepNpcCommand \/ StepTick \/ StepFetch \/ StepHandle
  \/ ApiLocConnect \/ ApiLocDisconnect \/ ApiEdgeStatus

\* ------------------------------------------------------------ plan alone
\* one planner.plan(context) call; last_call keeps what the LLM answered,
\* how many times it was asked and what plan() returned
PlanEnds(parsed, parsed2, chats) ==
  /\ last_call' = [op |-> "plan", result |-> plan(parsed, parsed2), raised |-> FALSE,
                   reply |-> parsed, repair |-> parsed2, chats |-> chats]
  /\ UNCHANGED <<progVars, planned, plan_failed, round_plans, dropped, accepted,
                 commands_run, zeroed, overdue, reqVars, loopVars>>

PlanCall ==
  /\ last_call.op = "init"
  /\ \E parsed \in FirstReplies :
       IF NeedsRepair(parsed)
       THEN \E parsed2 \in RepairReplies : PlanEnds(parsed, parsed2, 2)
       ELSE PlanEnds(parsed, Parsed("garbage", None, <<>>), 1)

NextPlan == PlanCall

\* ------------------------------------------------------ apply_event alone
\* events for WorldState.apply_event, of the types that have a precondition
\* that can fail, from an agent that is somewhere (p1) and one that is
\* nowhere at first (n2), with targets that exist
ApplyActors == {"p1", "n2"}

ApplyEvents ==
  {Ev("move", game_tick, player_id, l, None, 0, NoConv) : l \in Locs}
  \cup {Ev(t, game_tick, a, i, None, 0, NoConv) :
          t \in {"grab", "drop", "eat"}, a \in ApplyActors, i \in Items}
  \cup {Ev("equip", game_tick, a, i, sl, 0, NoConv) :
          a \in ApplyActors, i \in Items, sl \in Slots}
  \cup {Ev("unequip", game_tick, a, None, sl, 0, NoConv) :
          a \in ApplyActors, sl \in Slots}
  \cup {Ev("give", game_tick, a, i, b, 0, NoConv) :
          a \in ApplyActors, i \in Items, b \in ApplyActors}
  \cup {Ev(t, game_tick, a, l, None, 0, NoConv) :
          t \in {"open_connection", "close_connection"},
          a \in ApplyActors, l \in Locs}

\* world.apply_event(event), called on its own
ApplyEventCall ==
  /\ \E e \in ApplyEvents : Commit(ApplyEvent(State, e))
  /\ last_call' = [op |-> "apply_event", result |-> "ok", raised |-> FALSE]
  /\ UNCHANGED <<tools, npc_turn_order, current_npc_index, planned,
                 plan_failed, round_plans, dropped, accepted, commands_run, overdue, reqVars,
                 loopVars>>

NextApply == ApplyEventCall

\* ------------------------------------------------- web front end
\* two /api/action requests; the server gives each request its own thread
\* and perform_action takes no lock, so the simulator calls of two requests
\* can alternate (each call is taken as one step)
Requests == {1, 2}

SetPc(r, pc) == request_pc' = [request_pc EXCEPT ![r] = pc]

\* simulator.process_command(player_id, action); an exception ends the
\* request with an error response
ReqProcessCommand(r) ==
  /\ request_pc[r] = "start"
  /\ commands_run < CommandBudget
  /\ \E c \in Commands(State, tools) : ProcessCommand(player_id, c)
  /\ SetPc(r, IF last_call'.result = "ok" THEN "drain" ELSE "done")
  /\ UNCHANGED <<any_npc_acted, loopVars>>

\* while simulator.event_queue: simulator.tick()
ReqDrain(r) ==
  /\ request_pc[r] = "drain"
  /\ IF event_queue # <<>>
     THEN /\ Tick
          /\ SetPc(r, IF last_call'.raised THEN "done" ELSE "drain")
     ELSE /\ SetPc(r, "npcs")
          /\ UNCHANGED <<progVars, last_call, planned, plan_failed, round_plans, dropped, accepted,
                         commands_run, zeroed, overdue>>
  /\ UNCHANGED <<any_npc_acted, loopVars>>

\* while simulator.run_npc_round(): any_npc_acted = True
ReqNpcRound(r) ==
  /\ request_pc[r] = "npcs"
  /\ RunOneNpcTurn
  /\ IF last_call'.result = "false"
     THEN SetPc(r, "after_npcs") /\ UNCHANGED any_npc_acted
     ELSE /\ any_npc_acted' = [any_npc_acted EXCEPT ![r] = TRUE]
          /\ UNCHANGED request_pc
  /\ UNCHANGED loopVars

\* if any_npc_acted: simulator.tick()
ReqTickAfterNpcs(r) ==
  /\ request_pc[r] = "after_npcs"
  /\ IF any_npc_acted[r]
     THEN /\ Tick
          /\ SetPc(r, IF last_call'.raised THEN "done" ELSE "catch_up")
     ELSE /\ SetPc(r, "catch_up")
          /\ UNCHANGED <<progVars, last_call, planned, plan_failed, round_plans, dropped, accepted,
                         commands_run, zeroed, overdue>>
  /\ UNCHANGED <<any_npc_acted, loopVars>>

\* while player.next_available_tick > simulator.game_tick: simulator.tick()
ReqCatchUp(r) ==
  /\ request_pc[r] = "catch_up"
  /\ IF next_available_tick[player_id] > game_tick
     THEN /\ Tick
          /\ SetPc(r, IF last_call'.raised THEN "done" ELSE "catch_up")
     ELSE /\ SetPc(r, "done")
          /\ UNCHANGED <<progVars, last_call, planned, plan_failed, round_plans, dropped, accepted,
                         commands_run, zeroed, overdue>>
  /\ UNCHANGED <<any_npc_acted, loopVars>>

PerformAction(r) ==
  \/ ReqProcessCommand(r)
  \/ ReqDrain(r)
  \/ ReqNpcRound(r)
  \/ ReqTickAfterNpcs(r)
  \/ ReqCatchUp(r)

NextWeb == \E r \in Requests : PerformAction(r)

\* ------------------------------------------------------------------ Init
\* static layouts: hex_connections of each location, read as neighbour ->
\* direction key (None: not a neighbour)
Layout(d12, d21) ==
  [x \in Locs |-> [y \in Locs |->
     IF <<x, y>> = <<"L1", "L2">> THEN d12
     ELSE IF <<x, y>> = <<"L2", "L1">> THEN d21 ELSE None]]

TwoWayLayout == Layout("E", "W")

\* connections_state as read from the *_state.json files
Edges(s12, d12, s21, d21) ==
  [conn |-> [x \in Locs |-> [y \in Locs |->
               IF <<x, y>> = <<"L1", "L2">> THEN s12
               ELSE IF <<x, y>> = <<"L2", "L1">> THEN s21 ELSE "absent"]],
   dir |-> Layout(d12, d21)]

NoEdges == Edges("absent", None, "absent", None)

\* WorldState._hydrate_connection_directions, for one static entry
\* hex_connections[dir_key] = y of location x
HydrateEdge(W, x, y) ==
  LET dir_key == W.hex[x][y]
      st == IF W.conn[x][y] = "absent" THEN "open" ELSE W.conn[x][y]
      d == IF W.dir[x][y] = None THEN dir_key ELSE W.dir[x][y]
      rst == IF W.conn[y][x] = "absent" THEN st ELSE W.conn[y][x]
      rd == IF W.dir[y][x] = None THEN HEX_DIR_INVERSE(dir_key) ELSE W.dir[y][x]
  IN IF dir_key = None THEN W
     ELSE [W EXCEPT !.conn = [p \in Locs |-> [q \in Locs |->
                                IF <<p, q>> = <<x, y>> THEN st
                                ELSE IF <<p, q>> = <<y, x>> THEN rst
                                ELSE W.conn[p][q]]],
                    !.dir = [p \in Locs |-> [q \in Locs |->
                                IF <<p, q>> = <<x, y>> THEN d
                                ELSE IF <<p, q>> = <<y, x>> THEN rd
                                ELSE W.dir[p][q]]]]

\* WorldState._hydrate_connection_directions: the locations in load order
Hydrate(static, loaded) ==
  HydrateEdge(HydrateEdge([conn |-> loaded.conn, dir |-> loaded.dir, hex |-> static],
                          "L1", "L2"),
              "L2", "L1")

\* the world as loaded: the agents of `placed` are alive at L1, the others
\* are dead and in no location; n1 has 1 hp left, the others 2; p1 carries
\* the weapon, the food lies at L1, the two locations are joined by an open
\* edge
InitWorldMem(placed, registry, meals, home, free_at, static, loaded, mems, cores) ==
  /\ tools = registry
  /\ game_tick = 0
  /\ event_queue = <<>>
  /\ starvation_enabled = TRUE
  /\ occupants = [x \in Locs |->
                    SelectSeq(<<"p1", "n1", "n2">>,
                              LAMBDA a : a \in placed /\ home[a] = x)]
  /\ loc_items = [x \in Locs |-> IF x = "L1" THEN <<"i2">> ELSE <<>>]
  /\ connections = Hydrate(static, loaded).conn
  /\ directions = Hydrate(static, loaded).dir
  /\ hex_connections = static
  /\ short_term_memory = [a \in Agents |-> <<>>]
  /\ inventory = [a \in Agents |-> IF a = "p1" THEN <<"i1">> ELSE <<>>]
  /\ slots = [a \in Agents |-> [sl \in Slots |-> None]]
  /\ item_instances = Items
  /\ owner_id = [i \in Items |-> IF i = "i1" THEN "p1" ELSE None]
  /\ current_location = [i \in Items |-> IF i = "i1" THEN None ELSE "L1"]
  /\ npcs = Agents
  /\ locations_state = Locs
  /\ hp = [a \in Agents |-> IF a \notin placed THEN 0 ELSE IF a = "n1" THEN 1 ELSE 2]
  /\ dead = [a \in Agents |-> a \notin placed]
  /\ next_available_tick = free_at
  /\ last_meal_tick = meals
  /\ hunger_stage = [a \in Agents |-> "sated"]
  /\ memories = mems
  /\ core_memories = cores
  /\ conversations = <<>>
  /\ actor_conversation = [a \in Agents |-> NoConv]
  /\ npc_turn_order = <<>>
  /\ current_npc_index = 0
  /\ last_call = [op |-> "init", result |-> "ok", raised |-> FALSE]
  /\ planned = [a \in Agents |-> None]
  /\ plan_failed = [a \in Agents |-> FALSE]
  /\ round_plans = [a \in Agents |-> "none"]
  /\ dropped = 0
  /\ accepted = [a \in Agents |-> <<>>]
  /\ commands_run = 0
  /\ zeroed = [a \in Agents |-> FALSE]
  /\ overdue = [a \in Agents |-> FALSE]
  /\ ready_events = <<>>
  /\ draining = "no"
  /\ request_pc = [r \in Requests |-> "start"]
  /\ any_npc_acted = [r \in Requests |-> FALSE]

\* the world as loaded with agents that remember nothing yet; n1 had its
\* last meal head_start ticks ago
InitWorldOn(placed, registry, head_start, home, free_at, static, loaded) ==
  InitWorldMem(placed, registry,
               [a \in Agents |-> IF a = "n1" THEN 0 - head_start ELSE 0],
               home, free_at, static, loaded,
               [a \in Agents |-> 0], [a \in Agents |-> 0])

InitWorldAt(placed, registry, head_start, home, free_at) ==
  InitWorldOn(placed, registry, head_start, home, free_at, TwoWayLayout, NoEdges)

InitWorld(placed, registry, head_start) ==
  InitWorldAt(placed, registry, head_start, [a \in Agents |-> "L1"],
              [a \in Agents |-> 0])

\* the registries of the scenarios
ItemTools == {"grab", "drop", "equip", "unequip", "give", "eat", "attack"}
MoveTools == {"move", "attack"}
TalkTools == {"talk", "interject", "leave_conversation", "move"}
CombatTools == {"attack", "reason", "wait", "toggle_starvation"}
WebTools == {"wait", "rest"}
GuardTools == {"talk", "interject", "wait"}
ConvTools == {"talk", "interject"}
NoiseTools == {"scream", "talk_loud"}
VantageTools == {"grab", "drop"}
EdgeTools == {"open", "close"}
AttackTools == {"attack", "equip"}
TravelTools == {"move"}
MemoryTools == {"reason", "reflect"}
HungerTools == {"eat", "grab", "toggle_starvation"}
RestTools == {"rest"}
DrainTools == {"attack", "toggle_starvation"}
RaceTools == {"move", "close"}
DeleteTools == {"drop", "equip"}
RoundTools == {"rest", "toggle_starvation"}

\* the tick at which an agent that began a long rest is available again
LongRest == 9

\* ticks since n1's last meal when the combat scenario is loaded
HungerHeadStart == 39

Init == InitWorld({"p1", "n1"}, ItemTools, 0)
InitMove == InitWorld({"p1", "n1"}, MoveTools, 0)
InitTalk == InitWorld(Agents, TalkTools, 0)
InitCombat == InitWorld({"p1", "n1"}, CombatTools, HungerHeadStart)
InitWeb == InitWorld({"p1", "n1"}, WebTools, 0)
InitGuard == InitWorld({"p1", "n1"}, GuardTools, 0)
\* n2 is at either location; n1 is in the middle of a long rest
InitConv ==
  \E l \in Locs :
    InitWorldAt(Agents, ConvTools, 0,
                [a \in Agents |-> IF a = "n2" THEN l ELSE "L1"],
                [a \in Agents |-> IF a = "n1" THEN LongRest ELSE 0])

\* p1 at L1 and n1 at L2; the two locations are neighbours in the static
\* layout, or not at all
InitNoise ==
  \E static \in {TwoWayLayout, Layout(None, None)} :
    InitWorldOn({"p1", "n1"}, NoiseTools, 0,
                [a \in Agents |-> IF a = "n1" THEN "L2" ELSE "L1"],
                [a \in Agents |-> 0], static, NoEdges)

\* p1, carrying i1, at L1, where i2 lies; n2, who has the
\* elevated_vantage_point tag, next door at L2
InitVantage ==
  InitWorldOn({"p1", "n2"}, VantageTools, 0,
              [a \in Agents |-> IF a = "n2" THEN "L2" ELSE "L1"],
              [a \in Agents |-> 0], TwoWayLayout, NoEdges)

\* p1 at L1 and n1 at L2; hex_connections lists the edge on both sides, or
\* on the side of L1 only; the state files hold no edge
InitEdges ==
  \E static \in {TwoWayLayout, Layout("E", None)} :
    InitWorldOn({"p1", "n1"}, EdgeTools, 0,
                [a \in Agents |-> IF a = "n1" THEN "L2" ELSE "L1"],
                [a \in Agents |-> 0], static, NoEdges)

\* p1, carrying i1, at L1, where i2 lies; the others are dead and nowhere;
\* the locations are joined by an open edge, or by none
InitApply ==
  \E static \in {TwoWayLayout, Layout(None, None)} :
    InitWorldOn({"p1"}, {}, 0, [a \in Agents |-> "L1"],
                [a \in Agents |-> 0], static, NoEdges)

\* p1, carrying the weapon, and n2 at L1
InitAttack == InitWorld({"p1", "n2"}, AttackTools, 0)

\* p1 at L1 and n1 at L2, joined by an open edge
InitTravel ==
  InitWorldOn({"p1", "n1"}, TravelTools, 0,
              [a \in Agents |-> IF a = "n1" THEN "L2" ELSE "L1"],
              [a \in Agents |-> 0], TwoWayLayout, NoEdges)

Spec == Init /\ [][Next]_vars
SpecMove == InitMove /\ [][Next]_vars
SpecTalk == InitTalk /\ [][Next]_vars
SpecCombat == InitCombat /\ [][Next]_vars
SpecWeb == InitWeb /\ [][NextWeb]_vars
SpecGuard == InitGuard /\ [][Next]_vars
SpecConv == InitConv /\ [][NextStep]_vars
SpecNoise == InitNoise /\ [][NextEdit]_vars
SpecVantage == InitVantage /\ [][NextStep]_vars
SpecEdges == InitEdges /\ [][NextEdit]_vars
SpecApply == InitApply /\ [][NextApply]_vars
SpecAttack == InitAttack /\ [][NextStep]_vars
SpecWait == InitWeb /\ [][NextStep]_vars
SpecTravel == InitTravel /\ [][NextEdit]_vars
\* p1 at L1 and n1 at L2, joined by an open edge that either may close
InitRace ==
  InitWorldOn({"p1", "n1"}, RaceTools, 0,
              [a \in Agents |-> IF a = "n1" THEN "L2" ELSE "L1"],
              [a \in Agents |-> 0], TwoWayLayout, NoEdges)

SpecRace == InitRace /\ [][NextStep]_vars

\* p1, carrying i1, at L1, where i2 lies; n1 at L2
InitDelete ==
  InitWorldOn({"p1", "n1"}, DeleteTools, 0,
              [a \in Agents |-> IF a = "n1" THEN "L2" ELSE "L1"],
              [a \in Agents |-> 0], TwoWayLayout, NoEdges)

SpecDelete == InitDelete /\ [][NextDelete]_vars

\* p1 and n2 at L1, free to talk
InitTurns == InitWorld({"p1", "n2"}, TurnTools, 0)

SpecTurns == InitTurns /\ [][NextStep]_vars
\* every agent is loaded with its two lists one short of the caps or at them
InitMemory ==
  \E m \in {MaxMemories - 1, MaxMemories}, k \in {MaxCoreMemories - 1, MaxCoreMemories} :
    InitWorldMem({"p1", "n1"}, MemoryTools, [a \in Agents |-> 0],
                 [a \in Agents |-> "L1"],
                 [a \in Agents |-> 0], TwoWayLayout, NoEdges,
                 [a \in Agents |-> m], [a \in Agents |-> k])

\* ticks since the last meal when the hunger scenario is loaded: one tick
\* before each threshold and two ticks before it
MealsAgo == {HUNGRY_THRESHOLD - 2, HUNGRY_THRESHOLD - 1,
             STARVING_THRESHOLD - 2, STARVING_THRESHOLD - 1}

\* p1 and n1 each had the last meal some MealsAgo ticks ago, and so had n2,
\* who is dead
InitHunger ==
  \E h1 \in MealsAgo, h2 \in MealsAgo :
    InitWorldMem({"p1", "n1"}, HungerTools,
                 [a \in Agents |-> IF a = "p1" THEN 0 - h1
                                   ELSE IF a = "n1" THEN 0 - h2
                                   ELSE 1 - STARVING_THRESHOLD],
                 [a \in Agents |-> "L1"], [a \in Agents |-> 0],
                 TwoWayLayout, NoEdges,
                 [a \in Agents |-> 0], [a \in Agents |-> 0])

SpecHunger == InitHunger /\ [][NextStep]_vars

InitRest == InitWorld(Agents, RestTools, 0)

SpecRest == InitRest /\ [][NextStep]_vars

\* the front end between two ticks: the player's commands and the loop
\* `while run_npc_round(): pass`, which keeps calling run_one_npc_turn
NextRound == SubmitCommand \/ NpcTurn

InitRound == InitWorld(Agents, RoundTools, 0)

SpecRound == InitRound /\ [][NextRound]_vars /\ WF_vars(NpcTurn)

\* p1 is sated or one tick short of starving; starvation can be switched on
\* and off
InitDrain ==
  \E h1 \in {0, STARVING_THRESHOLD - 1} :
    InitWorldMem({"p1", "n1"}, DrainTools,
                 [a \in Agents |-> IF a = "p1" THEN 0 - h1 ELSE 0],
                 [a \in Agents |-> "L1"], [a \in Agents |-> 0],
                 TwoWayLayout, NoEdges,
                 [a \in Agents |-> 0], [a \in Agents |-> 0])

\* the loop keeps calling tick() while the queue is not empty
SpecDrain == InitDrain /\ [][NextDrain]_vars /\ WF_game_tick(LoopPass)

SpecMemory == InitMemory /\ [][NextMemory]_vars

SpecPlan == InitGuard /\ [][NextPlan]_vars

\* ---------------------------------------------------------------- claims
\* the number of places where item i is held: positions in a location's
\* items, positions in an inventory, slots
ItemPlaces(i) ==
  Cardinality(UNION {{<<l, k>> : k \in {j \in 1..Len(loc_items[l]) : loc_items[l][j] = i}} : l \in Locs})
  + Cardinality(UNION {{<<a, k>> : k \in {j \in 1..Len(inventory[a]) : inventory[a][j] = i}} : a \in Agents})
  + Cardinality({p \in Agents \X Slots : slots[p[1]][p[2]] = i})

\* C1: every item instance still in item_instances is held exactly once, in
\* exactly one container (a location's items, an inventory or a slot)
C1_ItemInOneContainer ==
  \A i \in item_instances : ItemPlaces(i) = 1

\* p1 gave the weapon to n1, n1 was killed, and the weapon now lies where
\* n1 died
C1_Witness ==
  /\ accepted["p1"] = <<"give">> /\ ~dead["p1"] /\ inventory["p1"] = <<>>
  /\ dead["n1"] /\ hp["n1"] = 0 /\ inventory["n1"] = <<>>
  /\ InSeq("i1", loc_items["L1"])

\* the places where agent a is listed as an occupant
AgentPlaces(a) ==
  UNION {{<<l, k>> : k \in {j \in 1..Len(occupants[l]) : occupants[l][j] = a}} : l \in Locs}

\* C2: each agent is listed in the occupants of at most one location, and at
\* most once there
C2_AgentInOneLocation ==
  \A a \in Agents : Cardinality(AgentPlaces(a)) <= 1

\* an agent has moved to the other location
C2_Witness ==
  \E a \in Agents : InSeq(a, occupants["L2"]) /\ ~InSeq(a, occupants["L1"])

\* the conversations that list agent a among their participants
ConversationsOf(a) ==
  {id \in DOMAIN conversations : InSeq(a, conversations[id].participants)}

\* C3: no agent is a participant of more than one active conversation
C3_OneConversationPerAgent ==
  \A a \in Agents : Cardinality(ConversationsOf(a)) <= 1

\* C4: a process_command call that fails (unknown tool, busy actor, invalid
\* intent) leaves the world, the queue, every next_available_tick, the
\* conversations and game_tick as they were
C4_FailedCommandChangesNothing ==
  [][(last_call'.op = "process_command"
        /\ last_call'.result \in {"unknown_tool", "busy", "invalid"})
     => UNCHANGED progVars]_vars

\* a command was rejected while an accepted one was still queued
C4_Witness ==
  /\ last_call.op = "process_command"
  /\ last_call.result \in {"unknown_tool", "busy", "invalid"}
  /\ event_queue # <<>>
  /\ next_available_tick[player_id] > game_tick

\* C5: when tick() returns, the queue holds no event stamped with a tick
\* <= game_tick (the follow-ups of the handlers it ran have been handled)
C5_FollowUpsHandledInTick ==
  last_call.op = "tick" =>
    \A i \in 1..Len(event_queue) : event_queue[i].tick > game_tick

\* C6: an agent whose hp a damage_applied event brought to <= 0 is dead when
\* the next tick() returns
C6_DeadByNextTick == \A a \in Agents : ~overdue[a]

\* n1 starved: without any command, its hp reached 0 in one tick() and it
\* was dead when the following tick() returned
C6_Witness ==
  /\ last_call.op = "tick" /\ commands_run = 0
  /\ dead["n1"] /\ hp["n1"] = 0 /\ ~zeroed["n1"]

\* C7 as stated: no actor has two commands accepted at the same game_tick
C7_OneCommandPerTick == \A a \in Agents : Len(accepted[a]) <= 1

\* C7 as amended: once a command of a tool whose time cost is at least 1
\* (every registered tool but toggle_starvation) is accepted at game_tick t,
\* no further command of that actor is accepted while game_tick is t
C7_SerializedUnlessFree ==
  \A a \in Agents : \A i \in 1..Len(accepted[a]) :
    TimeCostOf(accepted[a][i]) >= 1 => i = Len(accepted[a])

\* p1 had a wait accepted and its next command at the same tick was rejected
\* as busy
C7_Witness ==
  /\ accepted[player_id] = <<"wait">>
  /\ last_call.op = "process_command" /\ last_call.result = "busy"

\* C8: an exception of a handler does not leave tick(), and no ready event
\* of the batch that was being drained goes unhandled
C8_NoReadyEventLost ==
  /\ dropped = 0
  /\ ~(last_call.op = "tick" /\ last_call.raised)

\* C9: when the LLM reply for an NPC is unparseable or the empty object,
\* run_one_npc_turn executes wait for that NPC and its next_available_tick
\* advances by 1
C9_PlannerFailureWaits ==
  [][\A n \in Agents :
       (last_call'.op = "run_one_npc_turn" /\ plan_failed'[n])
       => /\ accepted'[n] = Append(accepted[n], "wait")
          /\ next_available_tick'[n] = next_available_tick[n] + 1]_vars

\* C10: a dead agent has no command accepted, is not accepted as the target
\* of an attack, and its inventory and slots change no more
C10_DeadAgentExcluded ==
  [][\A a \in Agents : dead[a] =>
       /\ Len(accepted'[a]) <= Len(accepted[a])
       /\ (last_call'.op = "process_command" /\ last_call'.result = "ok"
            /\ Len(event_queue') > Len(event_queue)
            /\ event_queue'[Len(event_queue')].type = "attack_attempt")
           => event_queue'[Len(event_queue')].tgt # a
       /\ inventory'[a] = inventory[a]
       /\ slots'[a] = slots[a]]_vars

\* a perform_action call that has called process_command and not yet returned
InProgress(r) == request_pc[r] \notin {"start", "done"}

\* C11: the process_command -> drain -> NPC round -> tick sequence of one
\* /api/action request completes before that of another request starts: two
\* requests are never in the middle of their sequences at the same time
C11_RequestsDoNotInterleave ==
  \A r1, r2 \in Requests : (InProgress(r1) /\ InProgress(r2)) => r1 = r2

\* agent n is a participant of a conversation in which another agent holds
\* the turn
OutOfTurn(n) ==
  \E id \in DOMAIN conversations :
    /\ InSeq(n, conversations[id].participants)
    /\ conversations[id].current_speaker # n

\* the tools whose generate_events returns an event of type talk
TalkEventTools == {"talk", "interject"}

\* C12 as stated: run_one_npc_turn never enqueues a talk event for an NPC that
\* is in a conversation whose current_speaker is another agent
C12_NoTalkOutOfTurn ==
  [][\A n \in Agents :
       (last_call'.op = "run_one_npc_turn" /\ OutOfTurn(n))
       => ~(/\ Len(accepted'[n]) = Len(accepted[n]) + 1
            /\ accepted'[n][Len(accepted'[n])] \in TalkEventTools)]_vars

\* the conversation the simulator records for n has another current_speaker
RecordedOutOfTurn(n) ==
  /\ actor_conversation[n] \in DOMAIN conversations
  /\ conversations[actor_conversation[n]].current_speaker # n

\* C12 as amended: when plan() returns the talk tool for an NPC whose recorded
\* conversation has another current_speaker, run_one_npc_turn executes wait
\* instead
C12_TalkOutOfTurnBecomesWait ==
  [][\A n \in Agents :
       (last_call'.op = "run_one_npc_turn" /\ planned'[n] = "talk"
          /\ RecordedOutOfTurn(n))
       => accepted'[n] = Append(accepted[n], "wait")]_vars

\* n1 opened a conversation with p1, and when it planned to talk again while
\* p1 held the turn it waited instead
C12_Witness ==
  /\ last_call.op = "run_one_npc_turn"
  /\ planned["n1"] = "talk" /\ accepted["n1"] = <<"wait">>
  /\ \E id \in DOMAIN conversations :
       /\ actor_conversation["n1"] = id
       /\ conversations[id].current_speaker = "p1"
       /\ conversations[id].history = <<"n1">>

\* C13: a conversation in which only the opening line has been spoken has the
\* opener and its target as participants, the target as current_speaker and
\* turn_order = [opener]; once the target has answered, current_speaker is the
\* opener again
C13_OpeningTurns ==
  \A id \in DOMAIN conversations :
    LET c == conversations[id] IN
    /\ Len(c.history) = 1
       => /\ Len(c.participants) = 2
          /\ c.participants[1] = c.history[1]
          /\ c.current_speaker = c.participants[2]
          /\ c.turn_order = <<c.participants[1]>>
    /\ (Len(c.history) = 2 /\ c.participants = c.history)
       => c.current_speaker = c.history[1]

\* the event whose handle_event call the next step of the drain is
Handling == Head(ready_events)

IsInterject(e) == e.type = "talk" /\ e.aux = "interject" /\ e.conv # NoConv

\* C14: handling the interject of an agent that is at the conversation's
\* location and not yet a participant appends it to participants and to
\* turn_order and its line to history and keeps current_speaker; handling the
\* interject of an agent that is elsewhere changes none of the four
C14_InterjectJoinsAtTail ==
  [][(/\ ready_events # <<>> /\ IsInterject(Handling)
      /\ Handling.conv \in DOMAIN conversations)
     => LET n == Handling.actor
            id == Handling.conv
            c == conversations[id]
            loc == FindNpcLocation(State, n)
        IN /\ (loc = c.location_id /\ ~InSeq(n, c.participants))
              => /\ id \in DOMAIN conversations'
                 /\ conversations'[id].participants = Append(c.participants, n)
                 /\ conversations'[id].turn_order = Append(c.turn_order, n)
                 /\ conversations'[id].history = Append(c.history, n)
                 /\ conversations'[id].current_speaker = c.current_speaker
           /\ loc # c.location_id
              => /\ id \in DOMAIN conversations'
                 /\ conversations'[id].participants = c.participants
                 /\ conversations'[id].turn_order = c.turn_order
                 /\ conversations'[id].history = c.history
                 /\ conversations'[id].current_speaker = c.current_speaker]_vars

\* n2 interjected into the conversation p1 had opened with n1 and joined it
\* behind p1
C14_Witness ==
  \E id \in DOMAIN conversations :
    /\ conversations[id].participants = <<"p1", "n1", "n2">>
    /\ conversations[id].history = <<"p1", "n2">>
    /\ conversations[id].turn_order = <<"p1", "n2">>
    /\ conversations[id].current_speaker = "n1"
    /\ ready_events = <<>>

\* the participants of conversation c that are located at its location, given
\* the occupants lists occ
LocatedParticipants(c, occ) ==
  {a \in SeqToSet(c.participants) :
     c.location_id \in Locs /\ InSeq(a, occ[c.location_id])}

\* C15: after every handled event no conversation remains that has been idle
\* for more than 300 ticks or that has fewer than two participants at its
\* location
C15_NoStaleConversation ==
  [][(ready_events # <<>> /\ ~HandlerRaises(State, Handling))
     => \A id \in DOMAIN conversations' :
          /\ game_tick' - conversations'[id].last_interaction_tick <= ConvTimeout
          /\ Cardinality(LocatedParticipants(conversations'[id], occupants')) >= 2]_vars

\* ---------------------------------------------------------- perception
\* the entry (x,y) exists in connections_state of x
Connected(x, y) == connections[x][y] # "absent"

\* the location of the actor of the event being handled
NoiseAt == FindNpcLocation(State, Handling.actor)

Perceives(a, type) ==
  /\ Len(short_term_memory'[a]) > 0
  /\ short_term_memory'[a][Len(short_term_memory'[a])]
       = [type |-> type, actor |-> Handling.actor, loc |-> NoiseAt]

\* C16: when a scream event is handled at location L, every occupant of
\* every location connected to L has, after the handling, a perception of it
\* with location_id = L at the tail of its short-term memory, whether the
\* edge is open or closed
C16_ScreamReachesNeighbours ==
  [][(ready_events # <<>> /\ Handling.type = "scream" /\ NoiseAt # None)
     => \A nb \in Locs : \A a \in Agents :
          (Connected(NoiseAt, nb) /\ InSeq(a, occupants[nb]))
            => Perceives(a, "scream")]_vars

\* C17: when a talk_loud event is handled at location L, the occupants of
\* another location perceive it exactly when the edge from L to that location
\* is open; behind a closed edge, or with no edge, their short-term memory is
\* left as it was
C17_TalkLoudThroughOpenEdges ==
  [][(ready_events # <<>> /\ Handling.type = "talk_loud" /\ NoiseAt # None)
     => \A nb \in Locs \ {NoiseAt} : \A a \in Agents :
          InSeq(a, occupants[nb])
            => IF connections[NoiseAt][nb] = "open"
               THEN Perceives(a, "talk_loud")
               ELSE short_term_memory'[a] = short_term_memory[a]]_vars

VisualEvents == {"grab", "drop", "equip", "unequip", "attack_hit",
                 "attack_missed", "damage_applied", "inventory", "stats",
                 "analyze"}

\* C18: when an event of a visual type (grab, drop, equip, unequip,
\* attack_hit, attack_missed, damage_applied, inventory, stats, analyze) is
\* handled at location L, every agent with the elevated_vantage_point tag in
\* a location neighbouring L has, after the handling, a perception of it at
\* the tail of its short-term memory, whatever the status of the edge
C18_VantagePointSeesNeighbours ==
  [][(ready_events # <<>> /\ Handling.type \in VisualEvents /\ NoiseAt # None)
     => \A nb \in Locs \ {NoiseAt} : \A a \in Agents :
          (Elevated(a) /\ Connected(NoiseAt, nb) /\ InSeq(a, occupants[nb]))
            => Perceives(a, Handling.type)]_vars

\* ----------------------------------------------------------------- edges
\* C19: every entry (A,B) of connections_state that has a direction d has a
\* reciprocal entry (B,A) with direction inverse(d) and the same status
C19_ReciprocalEdges ==
  \A x \in Locs : \A y \in Locs :
    (Connected(x, y) /\ directions[x][y] # None)
      => /\ Connected(y, x)
         /\ directions[y][x] = inverse(directions[x][y])
         /\ connections[y][x] = connections[x][y]

\* ----------------------------------------------------------- apply_event
\* the precondition listed for each event type
ListedPrecondition(S, e) ==
  LET loc == FindNpcLocation(S, e.actor) IN
  CASE e.type = "move" -> e.tgt \in Locs
    [] e.type = "grab" -> loc # None /\ InSeq(e.tgt, S.litems[loc])
    [] e.type \in {"drop", "eat"} -> InSeq(e.tgt, S.inv[e.actor])
    [] e.type = "equip" -> InSeq(e.tgt, S.inv[e.actor]) /\ e.aux \in Slots
    [] e.type = "unequip" -> e.aux \in Slots /\ S.slots[e.actor][e.aux] # None
    [] e.type = "give" -> InSeq(e.tgt, S.inv[e.actor]) /\ e.aux \in Agents
    [] e.type \in {"open_connection", "close_connection"} ->
         loc # None /\ S.conn[loc][e.tgt] # "absent"
    [] OTHER -> TRUE

\* the events above, and a move to a location that does not exist
FailingInputs ==
  ApplyEvents
  \cup {Ev("move", game_tick, a, "L9", None, 0, NoConv) : a \in ApplyActors}

\* C20: when the precondition listed for its type does not hold (move to a
\* location not in locations_state; grab of an item not in the actor's
\* location; drop, eat or equip of an item not in the inventory; unequip of
\* an empty slot; give by a non-holder; open or close with no location or no
\* edge), apply_event leaves the whole world state unchanged
C20_FailedPreconditionChangesNothing ==
  \A e \in FailingInputs :
    ~ListedPrecondition(State, e) => ApplyEvent(State, e) = State

\* ---------------------------------------------------------------- combat
\* the events handle_event appended to the queue in this step
Enqueued == SubSeq(event_queue', Len(event_queue) + 1, Len(event_queue'))

\* to_hit = d20 + attr_mod + prof_bonus(skill) of attacker a
ToHit(a, d20) ==
  d20 + (IF WeaponItem(State, a) # None /\ IsFinesse(WeaponItem(State, a))
         THEN Max2(ability_modifier(Strength(a)), ability_modifier(Dexterity(a)))
         ELSE ability_modifier(Strength(a)))
      + ProfBonus(a)

DropCmd(i) == Cmd("drop", i, None, 0, NoConv)
GrabCmd(i) == Cmd("grab", i, None, 0, NoConv)

\* the world once the drop event of a's drop command has been handled
AfterDrop(S, a, i) ==
  HandleEvent(S, DropEvents(S, a, DropCmd(i), S.tick)[1], NoRoll)

\* a's drop of i passes validate_intent, and so does its grab of i once the
\* drop has been handled
DropGrabAccepted(S, a, i) ==
  /\ ~S.dead[a]
  /\ DropValidate(S, a, DropCmd(i))
  /\ GrabValidate(AfterDrop(S, a, i), a, GrabCmd(i))

\* the world once the grab event has been handled too
AfterDropGrab(S, a, i) ==
  HandleEvent(AfterDrop(S, a, i),
              GrabEvents(AfterDrop(S, a, i), a, GrabCmd(i), S.tick)[1], NoRoll)

\* C22 as stated: for every agent and every item of its inventory, an
\* accepted drop followed, once handled, by an accepted grab of the same item
\* gives back the world as it was before the drop, the order of the
\* inventory and of the location's items included (the perceptions that
\* the two events leave in the short-term memories are not compared)
C22_DropGrabRestoresWorld ==
  \A a \in Agents : \A i \in Items :
    DropGrabAccepted(State, a, i)
      => [AfterDropGrab(State, a, i) EXCEPT !.stm = short_term_memory] = State

\* C22 as amended: the drop and the grab give back the world as it was
\* before the drop, the order of the location's items included, but for the
\* inventory, where the item has moved to the end, and for the perceptions
\* of the two events in the short-term memories
C22_DropGrabMovesItemLast ==
  \A a \in Agents : \A i \in Items :
    DropGrabAccepted(State, a, i)
      => AfterDropGrab(State, a, i)
           = [State EXCEPT !.inv[a] = Append(RemoveFirst(@, i), i),
                           !.stm = AfterDropGrab(State, a, i).stm]

\* p1 holds the weapon and, behind it, the food it picked up: dropping and
\* grabbing the weapon is accepted and leaves the weapon behind the food
C22_Witness ==
  /\ inventory["p1"] = <<"i1", "i2">>
  /\ DropGrabAccepted(State, "p1", "i1")
  /\ AfterDropGrab(State, "p1", "i1").inv["p1"] = <<"i2", "i1">>
  /\ AfterDropGrab(State, "p1", "i1").litems = loc_items

EquipCmd(i, sl) == Cmd("equip", i, sl, 0, NoConv)
UnequipCmd(sl) == Cmd("unequip", None, sl, 0, NoConv)

\* the world once the equip event of a's equip command has been handled
AfterEquip(S, a, i, sl) ==
  HandleEvent(S, EquipEvents(S, a, EquipCmd(i, sl), S.tick)[1], NoRoll)

\* a's equip of i into sl passes validate_intent, and so does its unequip of
\* sl once the equip has been handled
EquipUnequipAccepted(S, a, i, sl) ==
  /\ ~S.dead[a]
  /\ EquipValidate(S, a, EquipCmd(i, sl))
  /\ UnequipValidate(AfterEquip(S, a, i, sl), a, UnequipCmd(sl))

\* the world once the unequip event has been handled too
AfterEquipUnequip(S, a, i, sl) ==
  HandleEvent(AfterEquip(S, a, i, sl),
              UnequipEvents(AfterEquip(S, a, i, sl), a, UnequipCmd(sl), S.tick)[1],
              NoRoll)

\* C23 as stated: for every agent, item of its inventory and slot, empty or
\* not, equip of the item into the slot followed by unequip of the slot
\* gives back the agent's inventory and slots as they were before the equip
C23_EquipUnequipRestores ==
  \A a \in Agents : \A i \in Items : \A sl \in Slots :
    EquipUnequipAccepted(State, a, i, sl)
      => /\ AfterEquipUnequip(State, a, i, sl).inv[a] = inventory[a]
         /\ AfterEquipUnequip(State, a, i, sl).slots[a] = slots[a]

\* what the slot holds, as a list
SlotContent(a, sl) == IF slots[a][sl] = None THEN <<>> ELSE <<slots[a][sl]>>

\* C23 as amended: after the equip and the unequip the slot is empty, the
\* other slots are as before, and the inventory is the former inventory
\* without the item, then the item the slot held (if any), then the item
C23_EquipUnequipEmptiesSlot ==
  \A a \in Agents : \A i \in Items : \A sl \in Slots :
    EquipUnequipAccepted(State, a, i, sl)
      => /\ AfterEquipUnequip(State, a, i, sl).inv[a]
              = Append(RemoveFirst(inventory[a], i) \o SlotContent(a, sl), i)
         /\ AfterEquipUnequip(State, a, i, sl).slots[a]
              = [slots[a] EXCEPT ![sl] = None]

\* p1 wields the weapon and holds the food: equipping the food and
\* unequipping it leaves the slot empty and both items in the inventory
C23_Witness ==
  /\ slots["p1"]["main_hand"] = "i1" /\ inventory["p1"] = <<"i2">>
  /\ EquipUnequipAccepted(State, "p1", "i2", "main_hand")
  /\ AfterEquipUnequip(State, "p1", "i2", "main_hand").inv["p1"] = <<"i1", "i2">>
  /\ AfterEquipUnequip(State, "p1", "i2", "main_hand").slots["p1"]["main_hand"] = None

\* ------------------------------------------------------------------ time
\* this step accepted a command of agent a
AcceptsFrom(a) == Len(accepted'[a]) = Len(accepted[a]) + 1

\* the tool of the command of a this step accepted
AcceptedTool(a) == accepted'[a][Len(accepted'[a])]

\* C24: a wait or rest with ticks = N >= 1 accepted at tick t leaves the
\* actor with next_available_tick = t + N; while game_tick is below an
\* actor's next_available_tick no command of it is accepted, by
\* process_command (which answers busy for a registered tool) or by the NPC
\* scheduler; from game_tick = next_available_tick on process_command no
\* longer answers busy; and game_tick moves only by one, in tick()
C24_WaitBlocksForNTicks ==
  [][/\ \A a \in Agents :
          /\ (AcceptsFrom(a) /\ AcceptedTool(a) \in {"wait", "rest"})
               => /\ event_queue'[Len(event_queue')].actor = a
                  /\ event_queue'[Len(event_queue')].amt >= 1
                  /\ next_available_tick'[a]
                       = game_tick + event_queue'[Len(event_queue')].amt
          /\ next_available_tick[a] > game_tick => ~AcceptsFrom(a)
     /\ last_call'.op = "process_command"
          => (last_call'.result = "busy")
               = (next_available_tick[player_id] > game_tick
                  /\ last_call'.result # "unknown_tool")
     /\ game_tick' # game_tick
          => (last_call'.op = "tick" /\ game_tick' = game_tick + 1)]_vars

\* p1 had a wait or rest of 2 ticks accepted at tick 0 and, one tick later,
\* its next command is rejected as busy
C24_Witness ==
  /\ game_tick = 1 /\ next_available_tick[player_id] = 2
  /\ accepted[player_id] = <<>>
  /\ last_call.op = "process_command" /\ last_call.result = "busy"

\* ------------------------------------------------------------------ move
\* how process_command answers a's move to l in the current state
MoveAnswer(a, l) ==
  ProcessCommandOn(State, tools, a, Cmd("move", l, None, 0, NoConv))

\* move targets: the locations, and one that does not exist
MoveTargets == Locs \cup {"L9"}

\* C25: for an actor that is at a location A and not busy, a move to B is
\* accepted when connections_state of A holds an open edge to B, and then
\* enqueues the move and sets next_available_tick to the tick + 5; it is
\* rejected as invalid intent when the edge is closed or missing; once the
\* move event is handled the actor is in the occupants of B, once, and of no
\* other location, with next_available_tick = (tick at submission) + 5
C25_MoveThroughOpenEdge ==
  [][/\ \A a \in Agents : \A l \in MoveTargets :
          (FindNpcLocation(State, a) # None /\ next_available_tick[a] <= game_tick)
            => IF l \in Locs /\ connections[FindNpcLocation(State, a)][l] = "open"
               THEN /\ MoveAnswer(a, l).result = "ok"
                    /\ MoveAnswer(a, l).s.nat[a] = game_tick + 5
                    /\ MoveAnswer(a, l).s.queue
                         = Append(event_queue,
                                  Ev("move", game_tick, a, l, None, 0, NoConv))
                    /\ MoveAnswer(a, l).s.occ = occupants
               ELSE /\ MoveAnswer(a, l).result = "invalid"
                    /\ MoveAnswer(a, l).s = State
     /\ (ready_events # <<>> /\ Handling.type = "move")
          => /\ \A l \in Locs :
                  Cardinality({k \in 1..Len(occupants'[l]) :
                                 occupants'[l][k] = Handling.actor})
                    = (IF l = Handling.tgt THEN 1 ELSE 0)
             /\ next_available_tick'[Handling.actor] = Handling.tick + 5]_vars

\* p1's move from L1 to L2, accepted at tick 0, has been handled
C25_Witness ==
  /\ InSeq("p1", occupants["L2"]) /\ ~InSeq("p1", occupants["L1"])
  /\ next_available_tick["p1"] = 5
  /\ event_queue = <<>> /\ ready_events = <<>>

\* C26: a run_one_npc_turn call leaves game_tick as it was, whatever the
\* planner answered and whatever its drain handled or raised; game_tick
\* changes in tick() only, and every tick() call adds exactly 1 to it
C26_OnlyTickAdvancesTime ==
  [][/\ last_call'.op = "run_one_npc_turn" => game_tick' = game_tick
     /\ last_call'.op = "tick" => game_tick' = game_tick + 1
     /\ game_tick' # game_tick => last_call'.op = "tick"]_vars

\* at tick 1 an NPC's command was accepted and a handler of its drain raised
C26_Witness ==
  /\ last_call.op = "run_one_npc_turn" /\ last_call.result = "ok"
  /\ last_call.raised /\ game_tick = 1

\* --------------------------------------------------------------- planner
\* the command the last plan() call returned
Planned == last_call.result

\* C27: a command returned by plan() names a tool of the known set and its
\* params hold every required key of the tool's schema and a key of each
\* of its one_of groups; the LLM is asked at most twice, the second time
\* being the repair; a reply naming a tool outside the known set gives wait
\* with ticks = 1 without a repair, and so does a known tool whose params
\* are invalid when the repaired reply is unusable or invalid too
C27_PlanReturnsValidCommand ==
  last_call.op = "plan" =>
    /\ Planned # NoPlan
         => /\ Planned.tool \in PlannerTools
            /\ SchemaRequired(Planned.tool) \subseteq DOMAIN Planned.params
            /\ \A group \in SchemaOneOf(Planned.tool) :
                 \E k \in group : k \in DOMAIN Planned.params
    /\ last_call.chats \in {1, 2}
    /\ (NamesTool(last_call.reply) /\ last_call.reply.tool \notin PlannerTools)
         => Planned = WaitPlan /\ last_call.chats = 1
    /\ (last_call.chats = 2
          /\ \/ last_call.repair.kind # "object"
             \/ last_call.repair.tool \notin PlannerTools
             \/ ~(SchemaRequired(last_call.repair.tool)
                    \subseteq DOMAIN normalize(last_call.repair.tool,
                                               last_call.repair.params)))
         => Planned = WaitPlan

\* the first reply was an attack without a target, the repaired reply an
\* equip without a slot: plan() fell back to wait
C27_Witness ==
  /\ last_call.op = "plan" /\ last_call.chats = 2
  /\ last_call.reply.tool = "attack" /\ last_call.reply.params = <<>>
  /\ last_call.repair.tool = "equip"
  /\ DOMAIN last_call.repair.params = {"item_id"}
  /\ Planned = WaitPlan


IsSuffix(s, t) == Len(s) <= Len(t) /\ s = SubSeq(t, Len(t) - Len(s) + 1, Len(t))

Newest(a) == short_term_memory'[a][Len(short_term_memory'[a])]

\* the step handles the event at the head of ready_events
Handles(e) ==
  /\ ready_events # <<>>
  /\ e = Head(ready_events)
  /\ ~HandlerRaises(State, e)
  /\ ready_events' = Tail(ready_events)

StarvationEvents(a) ==
  {i \in 1..Len(ready_events') :
     /\ ready_events'[i].type = "damage_applied"
     /\ ready_events'[i].aux = "starvation"
     /\ ready_events'[i].tick = game_tick'
     /\ ready_events'[i].actor = a}

\* C30: when tick() runs with starvation enabled, each agent that is not dead
\* becomes sated, hungry or starving by the ticks D since its last meal
\* (D <= 19, 20 <= D <= 39, D >= 40), and the events collected hold exactly
\* one damage_applied(amount 1, starvation) for each starving agent, aimed
\* at itself, and none for anyone else; none is left in the queue
C30_HungerThresholds ==
  [][game_tick' # game_tick /\ starvation_enabled =>
       \A a \in Agents :
         LET D == game_tick' - last_meal_tick[a] IN
         /\ ~dead[a] =>
              hunger_stage'[a] = IF D <= 19 THEN "sated"
                                 ELSE IF D <= 39 THEN "hungry"
                                 ELSE "starving"
         /\ Cardinality(StarvationEvents(a)) = IF ~dead[a] /\ D >= 40 THEN 1 ELSE 0
         /\ \A i \in StarvationEvents(a) :
              ready_events'[i].tgt = a /\ ready_events'[i].amt = 1
         /\ \A i \in 1..Len(event_queue') :
              ~(event_queue'[i].type = "damage_applied" /\ event_queue'[i].tick = game_tick')
    ]_vars

\* tick() has just returned its events: one agent turned starving exactly 40
\* ticks after its last meal and has its starvation event waiting, another
\* turned hungry exactly 20 ticks after its last meal and has none
C30_Witness ==
  \E a \in Agents, b \in Agents :
    /\ last_call.op = "tick"
    /\ draining = "tick"
    /\ game_tick - last_meal_tick[a] = 40 /\ hunger_stage[a] = "starving"
    /\ game_tick - last_meal_tick[b] = 20 /\ hunger_stage[b] = "hungry"
    /\ \E i \in 1..Len(ready_events) :
         ready_events[i].actor = a /\ ready_events[i].aux = "starvation"
    /\ \A i \in 1..Len(ready_events) : ready_events[i].actor # b


\* ---------------------------------------------------------------- rest
\* the rest event that RestTool makes of a command with the given ticks
RestOf(a, n) == RestEvents(State, a, Cmd("rest", None, None, n, NoConv), game_tick)[1]

\* C31 as stated: a rest command of n ticks makes an event with healed = n,
\* and handling a rest event sets the actor's hp to
\* min(previous hp + healed, 2 * constitution)
C31_RestCapsAtTwiceConstitution ==
  [][/\ \A a \in Agents, n \in 1..MaxWait : RestOf(a, n).amt = n
     /\ \A e \in SeqToSet(ready_events) :
          Handles(e) /\ e.type = "rest" =>
            /\ hp'[e.actor] = Min2(hp[e.actor] + e.amt, 2 * Constitution(e.actor))
            /\ hp'[e.actor] <= 2 * Constitution(e.actor)
    ]_vars

\* C31 amended: the cap is max(1, 2 * constitution)
C31_RestCapsAtMaxHp ==
  [][/\ \A a \in Agents, n \in 1..MaxWait : RestOf(a, n).amt = n
     /\ \A e \in SeqToSet(ready_events) :
          Handles(e) /\ e.type = "rest" =>
            /\ hp'[e.actor] = Min2(hp[e.actor] + e.amt,
                                   Max2(1, 2 * Constitution(e.actor)))
            /\ hp'[e.actor] <= Max2(1, 2 * Constitution(e.actor))
    ]_vars

\* a rest has been handled for an agent that it brought to its cap, seen by
\* a bystander
C31_Witness ==
  \E a \in Agents, b \in Agents :
    /\ a # b
    /\ short_term_memory[b] # <<>>
    /\ short_term_memory[b][Len(short_term_memory[b])].type = "rest"
    /\ short_term_memory[b][Len(short_term_memory[b])].actor = a
    /\ hp[a] = Max2(1, 2 * Constitution(a))


\* ------------------------------------------------------- the NPC round
\* C32: within one NPC round (the run_one_npc_turn calls up to and including
\* the next one that returns False, the clock standing still) plan() is
\* called at most once for each NPC, so each NPC executes at most one command
C32_OnePlanPerRound ==
  \A n \in Agents : round_plans[n] # "again"


\* C33: with game_tick held fixed, the calls of run_one_npc_turn that the
\* loop `while run_npc_round(): pass` makes come to one that returns False
\* (the runs followed are those that stay within MaxCommands accepted
\* commands)
C33_NpcRoundTerminates ==
  <>(\/ last_call.op = "run_one_npc_turn" /\ last_call.result = "false"
     \/ commands_run >= MaxCommands)


\* ------------------------------------------------- conversation shape
\* C34: every active conversation has at least two distinct participants,
\* its current_speaker is one of them, and its turn_order lists every other
\* participant exactly once and never the current speaker
C34_ConversationShape ==
  \A id \in DOMAIN conversations :
    LET c == conversations[id] IN
    /\ Cardinality(SeqToSet(c.participants)) >= 2
    /\ InSeq(c.current_speaker, c.participants)
    /\ ~InSeq(c.current_speaker, c.turn_order)
    /\ \A q \in SeqToSet(c.participants) \ {c.current_speaker} :
         Count(q, c.turn_order) = 1
    /\ SeqToSet(c.turn_order) \subseteq SeqToSet(c.participants)


\* ------------------------------------------------------ the dead stay out
\* C35: an agent with "dead" in its dynamic tags is in no location's
\* occupants
C35_DeadInNoLocation ==
  \A a \in Agents : dead[a] => \A l \in Locs : ~InSeq(a, occupants[l])


\* --------------------------------------------------------------- damage
\* C36: handling a damage_applied event never raises the target's hp, and
\* hp never falls below 0
C36_DamageNeverHeals ==
  [][/\ \A a \in Agents : hp'[a] >= 0
     /\ \A e \in SeqToSet(ready_events) :
          Handles(e) /\ e.type = "damage_applied" => hp'[e.tgt] <= hp[e.tgt]
    ]_vars

\* C37: the loop `while event_queue: tick()` ends: the queue is never left
\* non-empty for ever, the loop's ticks empty it again and again, with
\* starvation on or off
C37_DrainLoopTerminates == []<>(event_queue = <<>>)

\* the loop ran past the clock's bound through attack_attempt,
\* damage_applied and npc_died and left the queue empty, starvation enabled
C37_Witness ==
  /\ game_tick > MaxTick
  /\ event_queue = <<>>
  /\ starvation_enabled
  /\ \E a \in {"p1", "n1"} : dead[a]

\* ------------------------------------------------ moves and closed edges
\* C38: whenever the handling of a move event puts its actor into another
\* location, the edge from the location the actor was in to the target is in
\* connections_state with status open at that moment, whatever commands
\* were accepted between the move's acceptance and its handling
C38_MoveAcrossOpenEdge ==
  [][\A e \in SeqToSet(ready_events) :
       (Handles(e) /\ e.type = "move"
          /\ FindNpcLocation(State, e.actor) # None
          /\ InSeq(e.actor, occupants'[e.tgt])
          /\ FindNpcLocation(State, e.actor) # e.tgt)
         => connections[FindNpcLocation(State, e.actor)][e.tgt] = "open"]_vars

\* ------------------------------------------------------ turns in a circle
\* the circle of conversation c: who speaks now, then who is waiting, in order
TurnCircle(c) == <<c.current_speaker>> \o c.turn_order

\* the event is a talk in turn that names no target
TalksInTurn(e) ==
  /\ e.type = "talk" /\ e.tgt = None
  /\ actor_conversation[e.actor] \in DOMAIN conversations
  /\ IF IsInterject(e)
     THEN /\ e.conv = actor_conversation[e.actor]
          /\ FindNpcLocation(State, e.actor) = conversations[e.conv].location_id
     ELSE TRUE
  /\ conversations[actor_conversation[e.actor]].current_speaker = e.actor

\* C39: in every conversation the circle, current_speaker followed by
\* turn_order, names each participant once; and the handling of a talk in
\* turn that names no target turns the circle by one place, the speaker going
\* to its end: so between two turns of a participant each of the others is
\* current_speaker once
C39_RoundRobinTurns ==
  [][/\ \A id \in DOMAIN conversations' :
          LET c == conversations'[id] IN
          /\ SeqToSet(TurnCircle(c)) = SeqToSet(c.participants)
          /\ Len(TurnCircle(c)) = Cardinality(SeqToSet(c.participants))
     /\ \A e \in SeqToSet(ready_events) :
          (Handles(e) /\ TalksInTurn(e))
            => LET id == actor_conversation[e.actor]
                   c == conversations[id]
               IN /\ id \in DOMAIN conversations'
                  /\ conversations'[id].participants = c.participants
                  /\ TurnCircle(conversations'[id])
                       = Append(c.turn_order, e.actor)]_vars

\* ------------------------------------------------------ editor deletes
\* the number of places where item i is held in the world that is left: the
\* items of the locations that exist, the inventories and slots of the
\* agents that exist
PlacesLeft(i) ==
  Cardinality(UNION {{<<l, k>> : k \in {j \in 1..Len(loc_items[l]) : loc_items[l][j] = i}} : l \in locations_state})
  + Cardinality(UNION {{<<a, k>> : k \in {j \in 1..Len(inventory[a]) : inventory[a][j] = i}} : a \in npcs})
  + Cardinality({p \in npcs \X Slots : slots[p[1]][p[2]] = i})

\* every instance is held once, and nothing that exists refers to an
\* instance, agent or location that does not
WellPlaced ==
  /\ \A i \in item_instances :
       /\ PlacesLeft(i) = 1
       /\ owner_id[i] \in npcs \cup {None}
       /\ current_location[i] \in locations_state \cup {None}
  /\ \A l \in locations_state :
       /\ SeqToSet(loc_items[l]) \subseteq item_instances
       /\ SeqToSet(occupants[l]) \subseteq npcs
       /\ \A y \in Locs : connections[l][y] # "absent" => y \in locations_state
  /\ \A a \in npcs :
       /\ SeqToSet(inventory[a]) \subseteq item_instances
       /\ \A sl \in Slots : slots[a][sl] \in item_instances \cup {None}

\* C40: an editor delete call made on a world in which every instance is
\* held once and nothing refers to what does not exist leaves such a world
C40_DeletesKeepItemsPlaced ==
  [][(last_call'.op \in DeleteOps /\ WellPlaced) => WellPlaced']_vars

====
